---------------------------- MODULE Spec2Model ----------------------------
(***************************************************************************)
(* Model of uvc-util's packed-binary value system (UVCType / UVCValue):   *)
(* the schema parser and layout engine, the endianness normaliser and the *)
(* text codec.                                                            *)
(*                                                                         *)
(* C strings are sequences of one-character strings; reading at or past   *)
(* the end of the sequence yields NUL, the terminator.  Buffers are       *)
(* sequences of bytes 0..255 in memory order.  64-bit integers are kept   *)
(* as 8 bytes, least significant first, so that no arithmetic exceeds the *)
(* checker's integer range.                                               *)
(***************************************************************************)
EXTENDS Integers, Sequences, FiniteSets, TLC

VARIABLES
    hostBigEndian,  \* build configuration: __BYTE_ORDER__ is big-endian
    pc,             \* which operation acted last
    descr,          \* createFromCString: the description, as written
    names,          \* createWithFieldNamesAndTypes: the name list
    types,          \* createWithFieldNamesAndTypes: the type list
    uvcType,        \* the schema pointer returned (<<>> is nullptr)
    otherType,      \* a second schema pointer, for isEqual
    equalResult,    \* <<isEqual(this, other), isEqual(other, this)>>
    buffer,         \* the external buffer handed to UVCType methods
    buffer0,        \* the bytes of buffer before the first operation
    cString,        \* the text handed to scanCString
    written,        \* how cString was composed: its form and its values
    limits,         \* the optional minimum/maximum/stepSize/defaultValue buffers
    scanResult,     \* what scanCString returned
    formatted,      \* what stringFromBuffer returned
    scanFlags,      \* the UVCTypeScanFlags handed to scanCString
    warned,         \* whether scanCString wrote a warning to stderr
    rescan,         \* a second scanCString call, for comparison with the first
    value,          \* a UVCValue container (<<>> is nullptr)
    otherValue,     \* a second UVCValue container
    fieldPointer,   \* what pointerToFieldAtIndex/WithName returned
    control,        \* a UVCControl: its five containers and _capabilities
    device,         \* the camera: the bytes it returns for each request
    transport,      \* the last SET_CUR request handed to the transport
    controller,     \* a UVCDeviceController: interface pointer and flags
    services,       \* the interface services IOKit lists, and who holds each
    argc,           \* main: the number of options on the command line
    optind,         \* main: the options getopt_long has returned so far
    rc,             \* main: the exit code so far
    exitOnErrors,   \* main: cleared by -k
    uvcDevices,     \* main: the controllers found (<<>> until asked for)
    targetDevice,   \* main: the selected controller (<<>> is nullptr)
    attached,       \* the UVC devices attached to the machine
    reported        \* main: the ERROR lines on stderr, as error codes

vars == <<hostBigEndian, pc, descr, names, types, uvcType, otherType,
          equalResult, buffer, buffer0, cString, written, limits, scanResult,
          formatted, scanFlags, warned, rescan, value, otherValue,
          fieldPointer, control, device, transport, controller, services,
          argc, optind, rc, exitOnErrors, uvcDevices, targetDevice, attached,
          reported>>

scanVars == <<scanFlags, warned, rescan>>

valueVars == <<value, otherValue, fieldPointer>>

controlVars == <<control, device, transport>>

interfaceVars == <<controller, services>>

mainVars == <<argc, optind, rc, exitOnErrors, uvcDevices, targetDevice,
              attached, reported>>

deviceVars == <<controlVars, interfaceVars, mainVars>>

-----------------------------------------------------------------------------
(* Characters (<cctype>, "C" locale, ASCII).                               *)

NUL == "NUL"

LowerSeq == <<"a","b","c","d","e","f","g","h","i","j","k","l","m",
              "n","o","p","q","r","s","t","u","v","w","x","y","z">>
UpperSeq == <<"A","B","C","D","E","F","G","H","I","J","K","L","M",
              "N","O","P","Q","R","S","T","U","V","W","X","Y","Z">>
DigitSeq == <<"0","1","2","3","4","5","6","7","8","9">>

Range(s) == {s[i] : i \in DOMAIN s}

isalpha(c) == c \in Range(LowerSeq) \cup Range(UpperSeq)
isdigit(c) == c \in Range(DigitSeq)
isalnum(c) == isalpha(c) \/ isdigit(c)
isspace(c) == c \in {" ", "\t", "\n", "\r", "\f"}

tolower(c) ==
    IF c \in Range(UpperSeq)
    THEN LowerSeq[CHOOSE i \in DOMAIN UpperSeq : UpperSeq[i] = c]
    ELSE c

\* *(s + p - 1) for a NUL-terminated string s and a 1-based position p.
At(s, p) == IF p \in DOMAIN s THEN s[p] ELSE NUL

\* ToLowerStr with the transform left out: the string is stored as written.
ToLowerStr_AsWritten(s) == s

\* std::transform(..., ::tolower) over a std::string.
ToLowerStr(s) == [i \in DOMAIN s |-> tolower(s[i])]

\* while (isspace(*p)) p++;
RECURSIVE SkipSpace(_, _)
SkipSpace(s, p) == IF isspace(At(s, p)) THEN SkipSpace(s, p + 1) ELSE p

\* while (isalnum(*p) || *p == '-') p++;
RECURSIVE SkipName(_, _)
SkipName(s, p) ==
    IF isalnum(At(s, p)) \/ At(s, p) = "-" THEN SkipName(s, p + 1) ELSE p

\* while (isspace(*p) || *p == ';') p++;
RECURSIVE SkipSpaceSemi(_, _)
SkipSpaceSemi(s, p) ==
    IF isspace(At(s, p)) \/ At(s, p) = ";" THEN SkipSpaceSemi(s, p + 1) ELSE p

\* while (*p && !isalpha(*p)) p++;
RECURSIVE SkipNonAlpha(_, _)
SkipNonAlpha(s, p) ==
    IF At(s, p) # NUL /\ ~isalpha(At(s, p)) THEN SkipNonAlpha(s, p + 1) ELSE p

-----------------------------------------------------------------------------
(* Atomic type table.                                                      *)

\* enum class UVCTypeComponentType, in declaration order (Invalid = 0).
UVCTypeComponentType ==
    <<"Invalid", "Boolean", "SInt8", "UInt8", "Bitmap8", "SInt16", "UInt16",
      "Bitmap16", "SInt32", "UInt32", "Bitmap32", "SInt64", "UInt64",
      "Bitmap64", "Max">>

\* static_cast<int>(componentType)
Ord(t) == (CHOOSE i \in DOMAIN UVCTypeComponentType :
               UVCTypeComponentType[i] = t) - 1

byteSizes == <<0, 1, 1, 1, 1, 2, 2, 2, 4, 4, 4, 8, 8, 8>>

UVCTypeComponentByteSize(componentType) ==
    IF Ord(componentType) < Ord("Max")
    THEN byteSizes[Ord(componentType) + 1]
    ELSE 0

\* The inner switch on the width digit that follows 'm', 's' or 'u'.
WidthCase(c, t1, t2, t4, t8) ==
    CASE c = "1" -> t1
      [] c = "2" -> t2
      [] c = "4" -> t4
      [] c = "8" -> t8
      [] OTHER   -> "Invalid"

\* componentTypeFromString switching on *typeDefString itself, without
\* tolower: only the lower-case letters b, m, s, u are typecodes.
componentTypeFromString_NoToLower(s, p) ==
    LET q        == SkipNonAlpha(s, p)
        skipped  == q - p
        c        == At(s, q)
        d        == At(s, q + 1)
        outType  == CASE c = "b" -> "Boolean"
                      [] c = "m" -> WidthCase(d, "Bitmap8", "Bitmap16",
                                              "Bitmap32", "Bitmap64")
                      [] c = "s" -> WidthCase(d, "SInt8", "SInt16",
                                              "SInt32", "SInt64")
                      [] c = "u" -> WidthCase(d, "UInt8", "UInt16",
                                              "UInt32", "UInt64")
                      [] OTHER   -> "Invalid"
        consumed == IF c = "b" THEN skipped + 1 ELSE skipped + 2
    IN  [outType |-> outType,
         nChar   |-> IF outType # "Invalid" THEN consumed ELSE 0]

\* Returns the type and the value *nChar holds afterwards, given that every
\* caller sets nChar to 0 before the call (it is written only on success).
componentTypeFromString(s, p) ==
    LET q        == SkipNonAlpha(s, p)
        skipped  == q - p
        c        == tolower(At(s, q))
        d        == At(s, q + 1)
        outType  == CASE c = "b" -> "Boolean"
                      [] c = "m" -> WidthCase(d, "Bitmap8", "Bitmap16",
                                              "Bitmap32", "Bitmap64")
                      [] c = "s" -> WidthCase(d, "SInt8", "SInt16",
                                              "SInt32", "SInt64")
                      [] c = "u" -> WidthCase(d, "UInt8", "UInt16",
                                              "UInt32", "UInt64")
                      [] OTHER   -> "Invalid"
        consumed == IF c = "b" THEN skipped + 1 ELSE skipped + 2
    IN  [outType |-> outType,
         nChar   |-> IF outType # "Invalid" THEN consumed ELSE 0]

-----------------------------------------------------------------------------
(* Schema construction.  A shared_ptr<UVCType> is a sequence holding no    *)
(* object (nullptr) or one.                                                *)

nullptr == <<>>

\* for (i < types.size()) if (names[i].empty() || types[i] >= Max) return nullptr
AllFieldsValid(fieldNames, fieldTypes) ==
    \A i \in DOMAIN fieldTypes :
        /\ fieldNames[i] # <<>>
        /\ Ord(fieldTypes[i]) < Ord("Max")

createWithFieldNamesAndTypes(fieldNames, fieldTypes) ==
    IF Len(fieldNames) # Len(fieldTypes) THEN nullptr
    ELSE IF ~AllFieldsValid(fieldNames, fieldTypes) THEN nullptr
    ELSE LET needsNoByteSwap ==
                 \A i \in DOMAIN fieldNames :
                     UVCTypeComponentByteSize(fieldTypes[i]) = 1
         IN  <<[_fields |-> [i \in DOMAIN fieldNames |->
                                [fieldName |-> fieldNames[i],
                                 fieldType |-> fieldTypes[i]]],
                _needsNoByteSwap |->
                    IF hostBigEndian THEN needsNoByteSwap ELSE TRUE]>>

\* The first pass of createFromCString, from position p with fieldCount
\* fields counted so far: the field count, or -1 where the code returns
\* nullptr.
RECURSIVE CountFields(_, _, _)
CountFields(s, p, fieldCount) ==
    IF At(s, p) = NUL THEN fieldCount
    ELSE
    LET r  == componentTypeFromString(s, p)
        p1 == SkipSpace(s, p + r.nChar)
        p2 == SkipName(s, p1)
        p3 == SkipSpaceSemi(s, p2)
    IN  IF r.outType = "Invalid" THEN -1
        ELSE IF At(s, p1) = NUL THEN -1
        ELSE IF At(s, p1) = "}" THEN fieldCount + 1
        ELSE IF At(s, p2) = NUL THEN -1
        ELSE IF At(s, p3) = "}" THEN fieldCount + 1
        ELSE CountFields(s, p3, fieldCount + 1)

\* for (altFieldIdx < fieldIdx) if (fieldNames[altFieldIdx] == fieldNames[fieldIdx])
NameRepeated(fieldNames, fieldIdx) ==
    \E altFieldIdx \in 1..(fieldIdx - 1) :
        fieldNames[altFieldIdx] = fieldNames[fieldIdx]

\* The second pass, from position p with fieldIdx fields stored (fieldIdx is
\* 0-based as in the code; the vectors are 1-based here).
RECURSIVE ParseFields(_, _, _, _, _, _)
ParseFields(s, p, fieldIdx, fieldCount, fieldNames, fieldTypes) ==
    IF At(s, p) = NUL \/ ~(fieldIdx < fieldCount)
    THEN createWithFieldNamesAndTypes(fieldNames, fieldTypes)
    ELSE
    LET r   == componentTypeFromString(s, p)
        ty  == [fieldTypes EXCEPT ![fieldIdx + 1] = r.outType]
        p1  == SkipSpace(s, p + r.nChar)
        p2  == IF At(s, p1) = "}" THEN p1 ELSE SkipName(s, p1)
        nm  == IF At(s, p1) = "}"
               THEN <<"v", "a", "l", "u", "e">>
               ELSE ToLowerStr(SubSeq(s, p1, p2 - 1))
        nms == [fieldNames EXCEPT ![fieldIdx + 1] = nm]
        p3  == SkipSpaceSemi(s, p2)
    IN  IF At(s, p1) = NUL THEN nullptr
        ELSE IF NameRepeated(nms, fieldIdx + 1) THEN nullptr
        ELSE IF At(s, p3) = "}"
        THEN createWithFieldNamesAndTypes(nms, ty)
        ELSE ParseFields(s, p3, fieldIdx + 1, fieldCount, nms, ty)

createFromCString(typeDescription) ==
    LET p          == SkipSpace(typeDescription, 1)
        startPtr   == p + 1
        fieldCount == CountFields(typeDescription, startPtr, 0)
    IN  IF At(typeDescription, p) # "{" THEN nullptr
        ELSE IF fieldCount = -1 THEN nullptr
        ELSE IF fieldCount = 0 THEN nullptr
        ELSE ParseFields(typeDescription, startPtr, 0, fieldCount,
                         [i \in 1..fieldCount |-> <<>>],
                         [i \in 1..fieldCount |-> "Invalid"])

-----------------------------------------------------------------------------
(* Schema queries.                                                         *)

\* SIZE_MAX: larger than every index and offset; no arithmetic is done on it.
UVCTypeInvalidIndex == 2147483647

fieldCount(t) == Len(t._fields)

fieldNameAtIndex(t, index) ==
    IF index >= Len(t._fields) THEN <<>> ELSE t._fields[index + 1].fieldName

fieldTypeAtIndex(t, index) ==
    IF index >= Len(t._fields) THEN "Invalid"
    ELSE t._fields[index + 1].fieldType

\* The sum of the widths of the first n fields, accumulated in field order.
RECURSIVE SumWidths(_, _)
SumWidths(fields, n) ==
    IF n = 0 THEN 0
    ELSE SumWidths(fields, n - 1) + UVCTypeComponentByteSize(fields[n].fieldType)

byteSize(t) == SumWidths(t._fields, Len(t._fields))

\* offsetToFieldAtIndex with the loop bound i <= index: the field's own
\* width is added too.
offsetToFieldAtIndex_Inclusive(t, index) ==
    IF index >= Len(t._fields) THEN UVCTypeInvalidIndex
    ELSE SumWidths(t._fields, index + 1)

offsetToFieldAtIndex(t, index) ==
    IF index >= Len(t._fields) THEN UVCTypeInvalidIndex
    ELSE SumWidths(t._fields, index)

\* isEqual without its loop over the field types.
isEqual_SizesOnly(t, other) ==
    fieldCount(t) = fieldCount(other) /\ byteSize(t) = byteSize(other)

isEqual(t, other) ==
    IF fieldCount(t) # fieldCount(other) \/ byteSize(t) # byteSize(other)
    THEN FALSE
    ELSE \A i \in DOMAIN t._fields :
             t._fields[i].fieldType = other._fields[i].fieldType

-----------------------------------------------------------------------------
(* Fixed-width integers as byte sequences, least significant byte first.  *)

Reverse(s) == [i \in DOMAIN s |-> s[Len(s) + 1 - i]]

Zeros(n) == [i \in 1..n |-> 0]

\* The bytes of a multi-byte object in this host's memory order.
HostOrder(le) == IF hostBigEndian THEN Reverse(le) ELSE le

\* *reinterpret_cast<const uintN_t*>(buffer + offset), N = 8 * width.
LoadField(buf, offset, width) ==
    HostOrder(SubSeq(buf, offset + 1, offset + width))

\* *reinterpret_cast<uintN_t*>(buffer + offset) = value
StoreField(buf, offset, le) ==
    [i \in DOMAIN buf |->
        IF i > offset /\ i <= offset + Len(le)
        THEN HostOrder(le)[i - offset]
        ELSE buf[i]]

\* memcpy(dst + offset, src, Len(src))
CopyBytes(buf, offset, src) ==
    [i \in DOMAIN buf |->
        IF i > offset /\ i <= offset + Len(src) THEN src[i - offset] ELSE buf[i]]

IsZero(le) == \A i \in DOMAIN le : le[i] = 0

\* The sign bit of a two's-complement value.
IsNegative(le) == le # <<>> /\ le[Len(le)] >= 128

\* le * factor + addend, with the carry out of the top byte.
RECURSIVE MulAdd(_, _, _)
MulAdd(le, factor, addend) ==
    IF le = <<>> THEN [bytes |-> <<>>, carry |-> addend]
    ELSE LET x    == Head(le) * factor + addend
             rest == MulAdd(Tail(le), factor, x \div 256)
         IN  [bytes |-> <<x % 256>> \o rest.bytes, carry |-> rest.carry]

\* Two's-complement negation at the width of le.
Negate(le) == MulAdd([i \in DOMAIN le |-> 255 - le[i]], 1, 1).bytes

\* be \div 10 and be % 10 for a value given most significant byte first,
\* entering with remainder rem from the bytes above.
RECURSIVE DivMod10(_, _)
DivMod10(be, rem) ==
    IF be = <<>> THEN [quot |-> <<>>, rem |-> rem]
    ELSE LET x    == rem * 256 + Head(be)
             rest == DivMod10(Tail(be), x % 10)
         IN  [quot |-> <<x \div 10>> \o rest.quot, rem |-> rest.rem]

\* The decimal digits of an unsigned value, as std::to_string and
\* operator<< write them.
RECURSIVE DecimalDigits(_)
DecimalDigits(le) ==
    LET d == DivMod10(Reverse(le), 0)
        q == Reverse(d.quot)
    IN  IF IsZero(q) THEN <<DigitSeq[d.rem + 1]>>
        ELSE DecimalDigits(q) \o <<DigitSeq[d.rem + 1]>>

UnsignedToString(le) == DecimalDigits(le)

SignedToString(le) ==
    IF IsNegative(le) THEN <<"-">> \o DecimalDigits(Negate(le))
    ELSE DecimalDigits(le)

-----------------------------------------------------------------------------
(* Schema lookups by name.                                                 *)

\* fieldName.length() == name.length() && std::equal(..., tolower(a) == tolower(b))
EqualIgnoringCase(a, b) ==
    /\ Len(a) = Len(b)
    /\ \A i \in DOMAIN a : tolower(a[i]) = tolower(b[i])

indexOfFieldWithName(t, fieldName) ==
    IF \E i \in DOMAIN t._fields :
           EqualIgnoringCase(fieldName, t._fields[i].fieldName)
    THEN (CHOOSE i \in DOMAIN t._fields :
              /\ EqualIgnoringCase(fieldName, t._fields[i].fieldName)
              /\ \A j \in 1..(i - 1) :
                     ~EqualIgnoringCase(fieldName, t._fields[j].fieldName)) - 1
    ELSE UVCTypeInvalidIndex

-----------------------------------------------------------------------------
(* Endianness normaliser.                                                  *)

\* htole16/32/64 and le16toh/32/64 on the bytes of one object in memory:
\* the identity on a little-endian host, a byte reversal on a big-endian one.
SwapBytes(bytes) == IF hostBigEndian THEN Reverse(bytes) ELSE bytes

\* A swap that reverses the buffer as one object.
SwapFields_WholeBuffer(fields, idx, ptr, buf) == SwapBytes(buf)

\* The field loop of both swap routines, with bufferPtr at offset ptr before
\* field number idx.
RECURSIVE SwapFields(_, _, _, _)
SwapFields(fields, idx, ptr, buf) ==
    IF idx > Len(fields) THEN buf
    ELSE LET w == UVCTypeComponentByteSize(fields[idx].fieldType)
         IN  IF w \in {2, 4, 8}
             THEN SwapFields(fields, idx + 1, ptr + w,
                             CopyBytes(buf, ptr,
                                       SwapBytes(SubSeq(buf, ptr + 1, ptr + w))))
             ELSE SwapFields(fields, idx + 1, ptr + w, buf)

byteSwapHostToUSBEndian(t, buf) ==
    IF t._needsNoByteSwap THEN buf ELSE SwapFields(t._fields, 1, 0, buf)

\* byteSwapUSBToHostEndian leaving every field as it finds it.
byteSwapUSBToHostEndian_Untouched(t, buf) == buf

byteSwapUSBToHostEndian(t, buf) ==
    IF t._needsNoByteSwap THEN buf ELSE SwapFields(t._fields, 1, 0, buf)

-----------------------------------------------------------------------------
(* Text codec: format.                                                     *)

IsSignedType(ty) == ty \in {"SInt8", "SInt16", "SInt32", "SInt64"}

TrueText  == <<"t", "r", "u", "e">>
FalseText == <<"f", "a", "l", "s", "e">>

\* The text written for the field of type ty whose bytes start at offset ptr.
ComponentString(ty, buf, ptr) ==
    LET w == UVCTypeComponentByteSize(ty)
    IN  CASE ty = "Boolean" ->
                 IF buf[ptr + 1] # 0 THEN TrueText ELSE FalseText
          [] IsSignedType(ty) -> SignedToString(LoadField(buf, ptr, w))
          [] ty \in {"Invalid", "Max"} -> <<>>
          [] OTHER -> UnsignedToString(LoadField(buf, ptr, w))

\* The field loop of stringFromBuffer from field number idx on.
RECURSIVE FieldStrings(_, _, _, _)
FieldStrings(fields, idx, ptr, buf) ==
    IF idx > Len(fields) THEN <<>>
    ELSE (IF idx > 1 THEN <<",">> ELSE <<>>)
         \o fields[idx].fieldName \o <<"=">>
         \o ComponentString(fields[idx].fieldType, buf, ptr)
         \o FieldStrings(fields, idx + 1,
                         ptr + UVCTypeComponentByteSize(fields[idx].fieldType),
                         buf)

stringFromBuffer(t, buf) ==
    IF Len(t._fields) = 1
    THEN ComponentString(t._fields[1].fieldType, buf, 0)
    ELSE <<"{">> \o FieldStrings(t._fields, 1, 0, buf) \o <<"}">>

-----------------------------------------------------------------------------
(* Text codec: scan.                                                       *)

\* strncasecmp(s + p - 1, word, Len(word)) == 0
HasPrefix(s, p, word) ==
    \A i \in DOMAIN word : tolower(At(s, p + i - 1)) = tolower(word[i])

DefaultWord == <<"d", "e", "f", "a", "u", "l", "t">>
MinimumWord == <<"m", "i", "n", "i", "m", "u", "m">>
MaximumWord == <<"m", "a", "x", "i", "m", "u", "m">>

\* The value of c as a digit in strtoll (36 when it is none).
DigitValue(c) ==
    IF isdigit(c)
    THEN (CHOOSE i \in DOMAIN DigitSeq : DigitSeq[i] = c) - 1
    ELSE IF isalpha(c)
    THEN (CHOOSE i \in DOMAIN LowerSeq : LowerSeq[i] = tolower(c)) + 9
    ELSE 36

LLONG_MAX == <<255, 255, 255, 255, 255, 255, 255, 127>>
LLONG_MIN == <<0, 0, 0, 0, 0, 0, 0, 128>>

\* The digit loop of strtoll: the magnitude accumulated in 64 bits, whether it
\* exceeded them, and the position after the last digit.
RECURSIVE AccumulateDigits(_, _, _, _, _)
AccumulateDigits(s, p, base, mag, overflow) ==
    IF DigitValue(At(s, p)) >= base
    THEN [mag |-> mag, overflow |-> overflow, endPos |-> p]
    ELSE LET r == MulAdd(mag, base, DigitValue(At(s, p)))
         IN  AccumulateDigits(s, p + 1, base, r.bytes,
                              overflow \/ r.carry # 0)

\* strtoll(s + p - 1, &endPtr, 0): the long long as 8 bytes, and endPtr.
strtoll(s, p) ==
    LET q      == SkipSpace(s, p)
        neg    == At(s, q) = "-"
        q1     == IF At(s, q) \in {"+", "-"} THEN q + 1 ELSE q
        isHex  == /\ At(s, q1) = "0"
                  /\ tolower(At(s, q1 + 1)) = "x"
                  /\ DigitValue(At(s, q1 + 2)) < 16
        base   == IF isHex THEN 16 ELSE IF At(s, q1) = "0" THEN 8 ELSE 10
        dstart == IF isHex THEN q1 + 2 ELSE q1
        a      == AccumulateDigits(s, dstart, base, Zeros(8), FALSE)
        tooBig == a.overflow \/ a.mag[8] > 128
                  \/ (a.mag[8] = 128 /\ (~neg \/ ~IsZero(SubSeq(a.mag, 1, 7))))
    IN  IF a.endPos = dstart
        THEN [value |-> Zeros(8), endPos |-> p]
        ELSE [value  |-> IF tooBig THEN (IF neg THEN LLONG_MIN ELSE LLONG_MAX)
                         ELSE IF neg THEN Negate(a.mag) ELSE a.mag,
              endPos |-> a.endPos]

\* An optional external buffer (minimum, maximum, stepSize, defaultValue) is
\* <<>> when the pointer is null, <<bytes>> otherwise.
NoLimits ==
    [minimum |-> <<>>, maximum |-> <<>>, stepSize |-> <<>>,
     defaultValue |-> <<>>]

BooleanTrues  == <<<<"y">>, <<"y", "e", "s">>, TrueText, <<"t">>, <<"1">>>>
BooleanFalses == <<<<"n">>, <<"n", "o">>, FalseText, <<"f">>, <<"0">>>>

\* The first literal of the list that is a prefix of the text at p, or 0.
FirstMatch(s, p, literals) ==
    IF \E i \in DOMAIN literals : HasPrefix(s, p, literals[i])
    THEN CHOOSE i \in DOMAIN literals :
             /\ HasPrefix(s, p, literals[i])
             /\ \A j \in 1..(i - 1) : ~HasPrefix(s, p, literals[j])
    ELSE 0

\* componentTypeScanf on the text at p, for the field of type theType at
\* byte offset off of buf (theValue = buffer + off; the limit pointers are
\* the external buffers plus off).  Returns whether it succeeded, the buffer
\* afterwards and the value left in *nChar (0, the caller's initial value,
\* where the code does not write it).
componentTypeScanf(s, p, theType, buf, off, lim) ==
    LET start == SkipSpace(s, p)
        w     == UVCTypeComponentByteSize(theType)
        fail  == [ok |-> FALSE, buf |-> buf, nChar |-> 0]
        t     == FirstMatch(s, start, BooleanTrues)
        f     == FirstMatch(s, start, BooleanFalses)
        n     == strtoll(s, start)
    IN  IF HasPrefix(s, start, DefaultWord)
        THEN IF lim.defaultValue = <<>> THEN fail
             ELSE IF theType \in {"Invalid", "Max"} THEN fail
             ELSE [ok    |-> TRUE,
                   buf   |-> CopyBytes(buf, off,
                                 SubSeq(lim.defaultValue[1], off + 1, off + w)),
                   nChar |-> 7]
        ELSE IF HasPrefix(s, start, MinimumWord) /\ lim.minimum # <<>>
        THEN [ok |-> TRUE, buf |-> buf, nChar |-> 7]
        ELSE IF HasPrefix(s, start, MaximumWord) /\ lim.maximum # <<>>
        THEN [ok |-> TRUE, buf |-> buf, nChar |-> 7]
        ELSE IF theType = "Boolean" /\ t # 0
        THEN [ok |-> TRUE, buf |-> CopyBytes(buf, off, <<1>>),
              nChar |-> Len(BooleanTrues[t])]
        ELSE IF theType = "Boolean" /\ f # 0
        THEN [ok |-> TRUE, buf |-> CopyBytes(buf, off, <<0>>),
              nChar |-> Len(BooleanFalses[f])]
        ELSE IF n.endPos = start THEN fail
        ELSE IF theType \in {"Invalid", "Max"} THEN fail
        ELSE [ok    |-> TRUE,
              buf   |-> StoreField(buf, off, SubSeq(n.value, 1, w)),
              nChar |-> n.endPos - start]

\* while (isspace(*p) || *p == ',') p++;
RECURSIVE SkipSpaceComma(_, _)
SkipSpaceComma(s, p) ==
    IF isspace(At(s, p)) \/ At(s, p) = "," THEN SkipSpaceComma(s, p + 1) ELSE p

\* while (*p && *p != '=') p++;
RECURSIVE SkipToEquals(_, _)
SkipToEquals(s, p) ==
    IF At(s, p) # NUL /\ At(s, p) # "=" THEN SkipToEquals(s, p + 1) ELSE p

\* The field loop of scanCString, one operator per stage of an iteration.
RECURSIVE ScanFields(_, _, _, _, _, _, _)

\* After componentTypeScanf returned r for the value at p3: fail, or advance
\* by nChar, skip whitespace and commas, and go on to the next iteration.
ScanAfterValue(t, s, p3, fieldIdx, usesNamedValues, r, lim) ==
    IF ~r.ok THEN [ok |-> FALSE, buf |-> r.buf]
    ELSE ScanFields(t, s, SkipSpaceComma(s, p3 + r.nChar), fieldIdx + 1,
                    usesNamedValues, r.buf, lim)

\* The value at p3 is scanned into field actualFieldIdx.
ScanValue(t, s, p3, fieldIdx, usesNamedValues, actualFieldIdx, buf, lim) ==
    IF actualFieldIdx = UVCTypeInvalidIndex THEN [ok |-> FALSE, buf |-> buf]
    ELSE ScanAfterValue(t, s, p3, fieldIdx, usesNamedValues,
             componentTypeScanf(s, p3, fieldTypeAtIndex(t, actualFieldIdx),
                                buf, offsetToFieldAtIndex(t, actualFieldIdx),
                                lim),
             lim)

\* The named entry stored in the field at the entry's position in the list.
ScanNamedValue_ByPosition(t, s, p1, p2, fieldIdx, buf, lim) ==
    IF At(s, p2) # "=" THEN [ok |-> FALSE, buf |-> buf]
    ELSE ScanValue(t, s, p2 + 1, fieldIdx, TRUE, fieldIdx, buf, lim)

\* A named value: the text from p1 up to the '=' at p2 is the field name.
ScanNamedValue(t, s, p1, p2, fieldIdx, buf, lim) ==
    IF At(s, p2) # "=" THEN [ok |-> FALSE, buf |-> buf]
    ELSE ScanValue(t, s, p2 + 1, fieldIdx, TRUE,
                   indexOfFieldWithName(t, ToLowerStr(SubSeq(s, p1, p2 - 1))),
                   buf, lim)

\* Iteration fieldIdx with leading whitespace skipped, cString at p1.
ScanField(t, s, p1, fieldIdx, usesNamedValues, buf, lim) ==
    IF At(s, p1) = "}" THEN [ok |-> TRUE, buf |-> buf]
    ELSE IF usesNamedValues
    THEN ScanNamedValue(t, s, p1, SkipToEquals(s, p1), fieldIdx, buf, lim)
    ELSE ScanValue(t, s, p1, fieldIdx, FALSE, fieldIdx, buf, lim)

\* The loop with cString at p before iteration fieldIdx (0-based).
ScanFields(t, s, p, fieldIdx, usesNamedValues, buf, lim) ==
    IF ~(fieldIdx < Len(t._fields)) THEN [ok |-> TRUE, buf |-> buf]
    ELSE ScanField(t, s, SkipSpace(s, p), fieldIdx, usesNamedValues, buf, lim)

\* What scanCString returns on a path that prints no warning.
Returned(r) == [ok |-> r.ok, buf |-> r.buf, warned |-> FALSE]

\* The whole-value copy with only the first field's bytes copied.
CopyWhole_FirstField(t, buf, src) ==
    CopyBytes(buf, 0,
              SubSeq(src, 1, UVCTypeComponentByteSize(t._fields[1].fieldType)))

\* memcpy(buffer, src, byteSize())
CopyWhole(t, buf, src) == CopyBytes(buf, 0, SubSeq(src, 1, byteSize(t)))

\* scanCString that gives up when any verbosity flag is set.
scanCString_LoudFails(t, s, buf, flags, lim) ==
    IF flags # {} THEN [ok |-> FALSE, buf |-> buf, warned |-> TRUE]
    ELSE [ok |-> TRUE, buf |-> buf, warned |-> FALSE]

\* scanCString with leading whitespace skipped, cString at p.
ScanFrom(t, s, p, buf, flags, lim) ==
    IF HasPrefix(s, p, DefaultWord)
    THEN IF lim.defaultValue # <<>>
         THEN Returned([ok  |-> TRUE,
                        buf |-> CopyWhole(t, buf, lim.defaultValue[1])])
         ELSE [ok |-> FALSE, buf |-> buf, warned |-> "ShowWarnings" \in flags]
    ELSE IF HasPrefix(s, p, MinimumWord)
    THEN IF lim.minimum # <<>>
         THEN Returned([ok  |-> TRUE,
                        buf |-> CopyWhole(t, buf, lim.minimum[1])])
         ELSE Returned([ok |-> FALSE, buf |-> buf])
    ELSE IF HasPrefix(s, p, MaximumWord)
    THEN IF lim.maximum # <<>>
         THEN Returned([ok  |-> TRUE,
                        buf |-> CopyWhole(t, buf, lim.maximum[1])])
         ELSE Returned([ok |-> FALSE, buf |-> buf])
    ELSE IF Len(t._fields) = 1 /\ At(s, p) # "{"
    THEN Returned(componentTypeScanf(s, p, t._fields[1].fieldType, buf, 0, lim))
    ELSE IF At(s, p) # "{" THEN Returned([ok |-> FALSE, buf |-> buf])
    ELSE Returned(ScanFields(t, s, p + 1, 0,
                             \E i \in DOMAIN s : i > p /\ s[i] = "=",
                             buf, lim))

\* scanCString with a non-null cString and buffer.  Returns whether it
\* succeeded, the buffer afterwards and whether a warning went to stderr.
scanCString(t, s, buf, flags, lim) ==
    ScanFrom(t, s, SkipSpace(s, 1), buf, flags, lim)

-----------------------------------------------------------------------------
(* Inputs of the schema layer.  A description is kept as written: an      *)
(* opener, field items (typecode, gap, name, separator) and a closer; the *)
(* text handed to createFromCString is their concatenation.               *)

MaxFields == 2

RECURSIVE Concat(_)
Concat(ss) == IF ss = <<>> THEN <<>> ELSE Head(ss) \o Concat(Tail(ss))

SeqsUpTo(S, n) == UNION {[1..k -> S] : k \in 0..n}

Item(code, gap, name, sep) ==
    [code |-> code, gap |-> gap, name |-> name, sep |-> sep]

ValidCodes == {<<"U", "1">>, <<"s", "2">>, <<"B">>, <<"M", "4">>}

FieldItems ==
    \* named fields, typecode and name in either letter case
    {Item(c, <<" ">>, n, s) :
        c \in {<<"U", "1">>, <<"s", "2">>},
        n \in {<<"a">>, <<"A">>, <<"b">>},
        s \in {<<>>, <<";">>, <<" ">>}}
    \cup
    \* fields written without a name
    {Item(c, <<>>, <<>>, s) :
        c \in {<<"U", "1">>, <<"s", "2">>}, s \in {<<>>, <<";">>}}
    \cup
    {Item(<<"B">>, <<" ">>, <<"b">>, <<";">>),
     Item(<<"M", "4">>, <<" ">>, <<"c", "-", "1">>, <<>>),
     \* not typecodes: a bad width, a bad letter, a longer token, stray
     \* characters in front
     Item(<<"U", "3">>, <<" ">>, <<"a">>, <<";">>),
     Item(<<"X", "1">>, <<" ">>, <<"a">>, <<>>),
     Item(<<"U", "1">>, <<>>, <<"6">>, <<>>),
     Item(<<"7", " ", "U", "1">>, <<" ">>, <<"a">>, <<>>)}

\* The type signatures of the program's control table, as written there.
Signature(items) == [open |-> <<"{">>, items |-> items, close |-> <<"}">>]

SigS2 == Signature(<<Item(<<"S", "2">>, <<>>, <<>>, <<>>)>>)
SigU2 == Signature(<<Item(<<"U", "2">>, <<>>, <<>>, <<>>)>>)
SigU1 == Signature(<<Item(<<"U", "1">>, <<>>, <<>>, <<>>)>>)
SigB  == Signature(<<Item(<<"B">>, <<>>, <<>>, <<>>)>>)
SigU4 == Signature(<<Item(<<"U", "4">>, <<>>, <<>>, <<>>)>>)
SigS1 == Signature(<<Item(<<"S", "1">>, <<>>, <<>>, <<>>)>>)

SigZoomRel ==
    Signature(<<Item(<<"S", "1">>, <<" ">>, <<"z", "o", "o", "m">>, <<";">>),
                Item(<<"U", "1">>, <<" ">>,
                     <<"d", "i", "g", "i", "t", "a", "l", "-", "z", "o", "o", "m">>,
                     <<";">>),
                Item(<<"U", "1">>, <<" ">>, <<"s", "p", "e", "e", "d">>, <<>>)>>)

SigPanTiltAbs ==
    Signature(<<Item(<<"S", "4">>, <<" ">>, <<"p", "a", "n">>, <<";", " ">>),
                Item(<<"S", "4">>, <<" ">>, <<"t", "i", "l", "t">>, <<>>)>>)

SigPanTiltRel ==
    Signature(<<Item(<<"S", "1">>, <<" ">>, <<"p", "a", "n">>, <<";">>),
                Item(<<"U", "1">>, <<" ">>,
                     <<"p", "a", "n", "-", "s", "p", "e", "e", "d">>, <<";", " ">>),
                Item(<<"S", "1">>, <<" ">>, <<"t", "i", "l", "t">>, <<";">>),
                Item(<<"U", "1">>, <<" ">>,
                     <<"t", "i", "l", "t", "-", "s", "p", "e", "e", "d">>, <<>>)>>)

uvcControlDefinitions ==
    {SigS2, SigU2, SigU1, SigB, SigU4, SigS1, SigZoomRel, SigPanTiltAbs,
     SigPanTiltRel}

Openers == {<<"{">>, <<" ", "{">>, <<>>}
Closers == {<<"}">>, <<>>}

Descriptions ==
    {[open |-> o, items |-> is, close |-> c] :
        o \in Openers, is \in SeqsUpTo(FieldItems, MaxFields) \ {<<>>},
        c \in Closers}
    \cup uvcControlDefinitions

ItemText(it) == it.code \o it.gap \o it.name \o it.sep

DescriptionText(d) ==
    d.open \o Concat([i \in DOMAIN d.items |-> ItemText(d.items[i])]) \o d.close

NameSamples == {<<>>, <<"a">>, <<"b">>}
TypeSamples == {"Invalid", "Boolean", "SInt16", "UInt32", "Bitmap64", "Max"}

NoDescription == [open |-> <<>>, items |-> <<>>, close |-> <<>>]

-----------------------------------------------------------------------------
(* The schema layer as a state machine: one constructor call per run.     *)

codecVars == <<buffer, buffer0, cString, written, limits, scanResult, formatted>>

typeVars == <<descr, names, types, uvcType, otherType, equalResult>>

NotWritten == [form |-> "none", values |-> <<>>]

\* Nothing of the device layer or of main exists yet.
DeviceIdle ==
    /\ control = nullptr
    /\ device = <<>>
    /\ transport = <<>>
    /\ controller = nullptr
    /\ services = <<>>
    /\ argc = 0
    /\ optind = 0
    /\ rc = 0
    /\ exitOnErrors = TRUE
    /\ uvcDevices = <<>>
    /\ targetDevice = nullptr
    /\ attached = 0
    /\ reported = <<>>

TypeInit ==
    /\ hostBigEndian \in BOOLEAN
    /\ pc = "start"
    /\ descr = NoDescription
    /\ names = <<>>
    /\ types = <<>>
    /\ uvcType = nullptr
    /\ otherType = nullptr
    /\ equalResult = <<>>
    /\ buffer = <<>>
    /\ buffer0 = <<>>
    /\ cString = <<>>
    /\ written = NotWritten
    /\ limits = NoLimits
    /\ scanResult = FALSE
    /\ formatted = <<>>
    /\ scanFlags = {}
    /\ warned = FALSE
    /\ rescan = <<>>
    /\ value = nullptr
    /\ otherValue = nullptr
    /\ fieldPointer = nullptr
    /\ DeviceIdle

CreateFromCString ==
    /\ pc = "start"
    /\ \E d \in Descriptions :
        /\ descr' = d
        /\ uvcType' = createFromCString(DescriptionText(d))
    /\ pc' = "createFromCString"
    /\ UNCHANGED <<hostBigEndian, names, types, otherType, equalResult>>
    /\ UNCHANGED codecVars
    /\ UNCHANGED scanVars
    /\ UNCHANGED deviceVars
    /\ UNCHANGED valueVars

CreateWithFieldNamesAndTypes ==
    /\ pc = "start"
    /\ \E ns \in SeqsUpTo(NameSamples, MaxFields),
          ts \in SeqsUpTo(TypeSamples, MaxFields) :
        /\ names' = ns
        /\ types' = ts
        /\ uvcType' = createWithFieldNamesAndTypes(ns, ts)
    /\ pc' = "createWithFieldNamesAndTypes"
    /\ UNCHANGED <<hostBigEndian, descr, otherType, equalResult>>
    /\ UNCHANGED codecVars
    /\ UNCHANGED scanVars
    /\ UNCHANGED deviceVars
    /\ UNCHANGED valueVars

TypeNext == CreateFromCString \/ CreateWithFieldNamesAndTypes

SpecType == TypeInit /\ [][TypeNext]_vars

-----------------------------------------------------------------------------
(* Schema equality: two schemas are built, then compared both ways.        *)

FieldAB(c1, n1, c2, n2) ==
    Signature(<<Item(c1, <<" ">>, n1, <<";">>), Item(c2, <<" ">>, n2, <<>>)>>)

EqualDescriptions ==
    uvcControlDefinitions
    \cup {FieldAB(<<"S", "2">>, <<"a">>, <<"U", "1">>, <<"b">>),
          FieldAB(<<"S", "2">>, <<"x">>, <<"U", "1">>, <<"y">>),
          FieldAB(<<"U", "2">>, <<"a">>, <<"U", "1">>, <<"b">>),
          FieldAB(<<"U", "1">>, <<"a">>, <<"S", "2">>, <<"b">>),
          FieldAB(<<"U", "1">>, <<"a">>, <<"U", "1">>, <<"b">>),
          Signature(<<Item(<<"M", "2">>, <<" ">>, <<"a">>, <<>>)>>),
          Signature(<<Item(<<"S", "1">>, <<" ">>, <<"a">>, <<";">>),
                      Item(<<"U", "1">>, <<" ">>, <<"b">>, <<";">>),
                      Item(<<"M", "1">>, <<" ">>, <<"c">>, <<>>)>>)}

CreateThis ==
    /\ pc = "start"
    /\ \E d \in EqualDescriptions :
        /\ descr' = d
        /\ uvcType' = createFromCString(DescriptionText(d))
    /\ pc' = "this"
    /\ UNCHANGED <<hostBigEndian, names, types, otherType, equalResult>>
    /\ UNCHANGED codecVars
    /\ UNCHANGED scanVars
    /\ UNCHANGED deviceVars
    /\ UNCHANGED valueVars

CreateOtherFromCString ==
    /\ pc = "this"
    /\ \E d \in EqualDescriptions :
        otherType' = createFromCString(DescriptionText(d))
    /\ pc' = "other"
    /\ UNCHANGED <<hostBigEndian, descr, names, types, uvcType, equalResult>>
    /\ UNCHANGED codecVars
    /\ UNCHANGED scanVars
    /\ UNCHANGED deviceVars
    /\ UNCHANGED valueVars

CreateOtherWithFieldNamesAndTypes ==
    /\ pc = "this"
    /\ \E n \in 0..MaxFields :
       \E ns \in [1..n -> NameSamples \ {<<>>}], ts \in [1..n -> TypeSamples] :
        /\ names' = ns
        /\ types' = ts
        /\ createWithFieldNamesAndTypes(ns, ts) # nullptr
        /\ otherType' = createWithFieldNamesAndTypes(ns, ts)
    /\ pc' = "other"
    /\ UNCHANGED <<hostBigEndian, descr, uvcType, equalResult>>
    /\ UNCHANGED codecVars
    /\ UNCHANGED scanVars
    /\ UNCHANGED deviceVars
    /\ UNCHANGED valueVars

IsEqual ==
    /\ pc = "other"
    /\ uvcType # nullptr /\ otherType # nullptr
    /\ equalResult' = <<isEqual(uvcType[1], otherType[1]),
                        isEqual(otherType[1], uvcType[1]),
                        isEqual(uvcType[1], uvcType[1])>>
    /\ pc' = "isEqual"
    /\ UNCHANGED <<hostBigEndian, descr, names, types, uvcType, otherType>>
    /\ UNCHANGED codecVars
    /\ UNCHANGED scanVars
    /\ UNCHANGED deviceVars
    /\ UNCHANGED valueVars

EqualNext ==
    CreateThis \/ CreateOtherFromCString \/ CreateOtherWithFieldNamesAndTypes
        \/ IsEqual

SpecEqual == TypeInit /\ [][EqualNext]_vars

-----------------------------------------------------------------------------
(* Inputs of the codec: schemas, buffer contents and texts.                *)

Single(code) == Signature(<<Item(code, <<>>, <<>>, <<>>)>>)

SigBoolByte == FieldAB(<<"B">>, <<"a">>, <<"U", "1">>, <<"b">>)
SigByteWord == FieldAB(<<"U", "1">>, <<"a">>, <<"U", "2">>, <<"b">>)
SigWide     == FieldAB(<<"M", "8">>, <<"m", "a", "s", "k">>,
                       <<"U", "8">>, <<"c", "o", "u", "n", "t">>)

CodecSignatures ==
    {Single(<<l, d>>) : l \in {"S", "U", "M"}, d \in {"1", "2", "4", "8"}}
    \cup {SigB, SigZoomRel, SigPanTiltAbs, SigBoolByte, SigByteWord, SigWide}

\* Values of a field of the given width, least significant byte first: for
\* the only field of a schema, and (fewer) for each field of several.
ValueSamples(width) ==
    IF width = 1 THEN {<<b>> : b \in {0, 1, 2, 10, 127, 128, 251, 255}}
    ELSE {<<lo>> \o [i \in 1..(width - 2) |-> mid] \o <<hi>> :
             lo \in {0, 1, 10, 251, 255}, mid \in {0, 255},
             hi \in {0, 127, 128, 255}}

CornerValues(width) ==
    IF width = 1 THEN {<<b>> : b \in {0, 1, 128, 255}}
    ELSE {[i \in 1..(width - 1) |-> b] \o <<hi>> :
             b \in {0, 255}, hi \in {0, 127, 128, 255}}
         \ {[i \in 1..(width - 1) |-> 0] \o <<255>>,
            [i \in 1..(width - 1) |-> 255] \o <<0>>,
            [i \in 1..(width - 1) |-> 0] \o <<127>>,
            [i \in 1..(width - 1) |-> 255] \o <<128>>}

\* Buffers of the fields from number idx on, in this host's memory order.
RECURSIVE BuffersFrom(_, _, _)
BuffersFrom(fields, idx, single) ==
    IF idx > Len(fields) THEN {<<>>}
    ELSE LET w == UVCTypeComponentByteSize(fields[idx].fieldType)
         IN  {HostOrder(v) \o rest :
                 v \in (IF single THEN ValueSamples(w) ELSE CornerValues(w)),
                 rest \in BuffersFrom(fields, idx + 1, single)}

SampleBuffers(t) == BuffersFrom(t._fields, 1, Len(t._fields) = 1)

BooleanLiterals ==
    {<<"0">>,
     <<"1">>}

SInt8Literals ==
    {<<"0">>,
     <<"-", "1">>,
     <<"-", "1", "2", "8">>,
     <<"1", "2", "7">>}

UInt8Literals ==
    {<<"0">>,
     <<"1", "0">>,
     <<"1", "2", "8">>,
     <<"2", "5", "5">>}

SInt16Literals ==
    {<<"0">>,
     <<"-", "1">>,
     <<"-", "3", "2", "7", "6", "8">>,
     <<"3", "2", "7", "6", "7">>}

UInt16Literals ==
    {<<"0">>,
     <<"1", "0">>,
     <<"3", "2", "7", "6", "8">>,
     <<"6", "5", "5", "3", "5">>}

SInt32Literals ==
    {<<"0">>,
     <<"1", "0">>,
     <<"-", "5">>,
     <<"-", "2", "1", "4", "7", "4", "8", "3", "6", "4", "8">>,
     <<"2", "1", "4", "7", "4", "8", "3", "6", "4", "7">>}

UInt32Literals ==
    {<<"0">>,
     <<"1", "0">>,
     <<"2", "1", "4", "7", "4", "8", "3", "6", "4", "8">>,
     <<"4", "2", "9", "4", "9", "6", "7", "2", "9", "5">>}

SInt64Literals ==
    {<<"0">>,
     <<"-", "1">>,
     <<"-", "9", "2", "2", "3", "3", "7", "2", "0", "3", "6", "8",
       "5", "4", "7", "7", "5", "8", "0", "8">>,
     <<"9", "2", "2", "3", "3", "7", "2", "0", "3", "6", "8", "5",
       "4", "7", "7", "5", "8", "0", "7">>}

UInt64Literals ==
    {<<"0">>,
     <<"1", "0">>,
     <<"9", "2", "2", "3", "3", "7", "2", "0", "3", "6", "8", "5",
       "4", "7", "7", "5", "8", "0", "7">>,
     <<"9", "2", "2", "3", "3", "7", "2", "0", "3", "6", "8", "5",
       "4", "7", "7", "5", "8", "0", "8">>,
     <<"1", "8", "4", "4", "6", "7", "4", "4", "0", "7", "3", "7",
       "0", "9", "5", "5", "1", "6", "1", "5">>}

\* In-range decimal literals for a field of the given type.
LiteralSamples(ty) ==
    CASE ty = "Boolean" -> BooleanLiterals
      [] ty = "SInt8" -> SInt8Literals
      [] ty \in {"UInt8", "Bitmap8"} -> UInt8Literals
      [] ty = "SInt16" -> SInt16Literals
      [] ty \in {"UInt16", "Bitmap16"} -> UInt16Literals
      [] ty = "SInt32" -> SInt32Literals
      [] ty \in {"UInt32", "Bitmap32"} -> UInt32Literals
      [] ty = "SInt64" -> SInt64Literals
      [] ty \in {"UInt64", "Bitmap64"} -> UInt64Literals

\* {name1=v1,name2=v2,...}: every field in declared order, no whitespace.
RECURSIVE CanonicalEntries(_, _, _)
CanonicalEntries(fields, values, idx) ==
    IF idx > Len(fields) THEN <<>>
    ELSE (IF idx > 1 THEN <<",">> ELSE <<>>)
         \o fields[idx].fieldName \o <<"=">> \o values[idx]
         \o CanonicalEntries(fields, values, idx + 1)

CanonicalText(t, values) ==
    <<"{">> \o CanonicalEntries(t._fields, values, 1) \o <<"}">>

\* One literal for each field of the schema.
LiteralChoices(t) ==
    {vs \in [DOMAIN t._fields -> UNION {LiteralSamples(t._fields[i].fieldType) :
                                           i \in DOMAIN t._fields}] :
        \A i \in DOMAIN t._fields :
            vs[i] \in LiteralSamples(t._fields[i].fieldType)}

\* An external buffer of byteSize() bytes read from the device, every byte
\* different from its neighbours.
ExternalBuffer(t, base) == [i \in 1..byteSize(t) |-> base + i]

\* Integer literals, some outside the range of the narrower types, in
\* decimal, hexadecimal and octal, each with its value modulo 2^64 as 8
\* bytes, least significant first.
WrapLiteral(text, bytes) == [text |-> text, mod64 |-> bytes]

WrapLiterals ==
    {WrapLiteral(<<"2", "5", "6">>, <<0, 1, 0, 0, 0, 0, 0, 0>>),
     WrapLiteral(<<"-", "1", "2", "9">>,
                 <<127, 255, 255, 255, 255, 255, 255, 255>>),
     WrapLiteral(<<"6", "5", "5", "3", "6">>, <<0, 0, 1, 0, 0, 0, 0, 0>>),
     WrapLiteral(<<"4", "2", "9", "4", "9", "6", "7", "2", "9", "6">>,
                 <<0, 0, 0, 0, 1, 0, 0, 0>>),
     WrapLiteral(<<"0", "x", "1", "F", "f">>, <<255, 1, 0, 0, 0, 0, 0, 0>>),
     WrapLiteral(<<"-", "0", "x", "8", "0">>,
                 <<128, 255, 255, 255, 255, 255, 255, 255>>),
     WrapLiteral(<<"0", "1", "0">>, <<8, 0, 0, 0, 0, 0, 0, 0>>),
     WrapLiteral(<<"+", "7">>, <<7, 0, 0, 0, 0, 0, 0, 0>>),
     WrapLiteral(<<"9", "2", "2", "3", "3", "7", "2", "0", "3", "6", "8", "5",
                   "4", "7", "7", "5", "8", "0", "8">>,
                 <<0, 0, 0, 0, 0, 0, 0, 128>>),
     WrapLiteral(<<"1", "8", "4", "4", "6", "7", "4", "4", "0", "7", "3", "7",
                   "0", "9", "5", "5", "1", "6", "1", "5">>,
                 <<255, 255, 255, 255, 255, 255, 255, 255>>)}

\* The limit buffers of a control that reports a range, a step size and a
\* default, all well inside the field's range.
AllLimits(t) ==
    [minimum      |-> <<ExternalBuffer(t, 16)>>,
     maximum      |-> <<ExternalBuffer(t, 32)>>,
     stepSize     |-> <<ExternalBuffer(t, 64)>>,
     defaultValue |-> <<ExternalBuffer(t, 48)>>]

-----------------------------------------------------------------------------
(* The codec as a state machine: a schema and a buffer exist; a run formats *)
(* and re-scans, or scans and re-formats, or swaps and swaps back.         *)

CodecInit ==
    /\ hostBigEndian \in BOOLEAN
    /\ pc = "ready"
    /\ descr \in CodecSignatures
    /\ names = <<>>
    /\ types = <<>>
    /\ uvcType = createFromCString(DescriptionText(descr))
    /\ otherType = nullptr
    /\ equalResult = <<>>
    /\ buffer \in SampleBuffers(uvcType[1])
    /\ buffer0 = buffer
    /\ cString = <<>>
    /\ written = NotWritten
    /\ limits = NoLimits
    /\ scanResult = FALSE
    /\ formatted = <<>>
    /\ scanFlags = {}
    /\ warned = FALSE
    /\ rescan = <<>>
    /\ value = nullptr
    /\ otherValue = nullptr
    /\ fieldPointer = nullptr
    /\ DeviceIdle

\* text = type->stringFromBuffer(buffer)
StringFromBuffer ==
    /\ pc \in {"ready", "scanCString"}
    /\ formatted' = stringFromBuffer(uvcType[1], buffer)
    /\ pc' = IF pc = "ready" THEN "stringFromBuffer"
             ELSE "scanCString;stringFromBuffer"
    /\ UNCHANGED <<hostBigEndian, buffer, buffer0, cString, written, limits,
                   scanResult>>
    /\ UNCHANGED typeVars
    /\ UNCHANGED scanVars
    /\ UNCHANGED deviceVars
    /\ UNCHANGED valueVars

\* type->scanCString(text, fresh, flags) with the text just formatted and a
\* fresh zero-filled buffer of the same schema.
ScanFormatted ==
    /\ pc = "stringFromBuffer"
    /\ \E r \in {scanCString(uvcType[1], formatted,
                              Zeros(byteSize(uvcType[1])), {}, limits)} :
        /\ buffer' = r.buf
        /\ scanResult' = r.ok
    /\ cString' = formatted
    /\ written' = [form |-> "formatted", values |-> <<>>]
    /\ pc' = "stringFromBuffer;scanCString"
    /\ UNCHANGED <<hostBigEndian, buffer0, limits, formatted>>
    /\ UNCHANGED typeVars
    /\ UNCHANGED scanVars
    /\ UNCHANGED deviceVars
    /\ UNCHANGED valueVars

\* type->scanCString(text, buffer, flags) with a canonical text.
ScanCString ==
    /\ pc = "ready"
    /\ buffer = Zeros(Len(buffer))
    /\ \E vs \in LiteralChoices(uvcType[1]) :
       \E text \in {IF Len(uvcType[1]._fields) = 1 THEN vs[1]
                     ELSE CanonicalText(uvcType[1], vs)} :
       \E r \in {scanCString(uvcType[1], text, buffer, {}, limits)} :
        /\ cString' = text
        /\ written' = [form |-> "canonical", values |-> vs]
        /\ buffer' = r.buf
        /\ scanResult' = r.ok
    /\ pc' = "scanCString"
    /\ UNCHANGED <<hostBigEndian, buffer0, limits, formatted>>
    /\ UNCHANGED typeVars
    /\ UNCHANGED scanVars
    /\ UNCHANGED deviceVars
    /\ UNCHANGED valueVars

\* type->scanCString(literal, buffer, flags, minimum, maximum, stepSize,
\* defaultValue) for a schema of one integer field, the limit pointers all
\* null or all given.
ScanLiteral ==
    /\ pc = "ready"
    /\ buffer = Zeros(Len(buffer))
    /\ Len(uvcType[1]._fields) = 1
    /\ uvcType[1]._fields[1].fieldType # "Boolean"
    /\ \E l \in WrapLiterals :
       \E lim \in {NoLimits, AllLimits(uvcType[1])} :
       \E r \in {scanCString(uvcType[1], l.text, buffer, {}, lim)} :
        /\ cString' = l.text
        /\ written' = [form |-> "literal", values |-> <<l>>]
        /\ limits' = lim
        /\ buffer' = r.buf
        /\ scanResult' = r.ok
    /\ pc' = "scanLiteral"
    /\ UNCHANGED <<hostBigEndian, buffer0, formatted>>
    /\ UNCHANGED typeVars
    /\ UNCHANGED scanVars
    /\ UNCHANGED deviceVars
    /\ UNCHANGED valueVars

ByteSwapHostToUSBEndian ==
    /\ pc = "ready"
    /\ buffer' = byteSwapHostToUSBEndian(uvcType[1], buffer)
    /\ pc' = "hostToUSB"
    /\ UNCHANGED <<hostBigEndian, buffer0, cString, written, limits,
                   scanResult, formatted>>
    /\ UNCHANGED typeVars
    /\ UNCHANGED scanVars
    /\ UNCHANGED deviceVars
    /\ UNCHANGED valueVars

ByteSwapUSBToHostEndian ==
    /\ pc \in {"ready", "hostToUSB"}
    /\ buffer' = byteSwapUSBToHostEndian(uvcType[1], buffer)
    /\ pc' = IF pc = "ready" THEN "usbToHost" ELSE "hostToUSB;usbToHost"
    /\ UNCHANGED <<hostBigEndian, buffer0, cString, written, limits,
                   scanResult, formatted>>
    /\ UNCHANGED typeVars
    /\ UNCHANGED scanVars
    /\ UNCHANGED deviceVars
    /\ UNCHANGED valueVars

CodecNext ==
    \/ StringFromBuffer
    \/ ScanFormatted
    \/ ScanCString
    \/ ScanLiteral
    \/ ByteSwapHostToUSBEndian
    \/ ByteSwapUSBToHostEndian

SpecCodec == CodecInit /\ [][CodecNext]_vars

-----------------------------------------------------------------------------
(* Properties of the schema layer.                                         *)

\* The typecode table of the description grammar.
TypecodeType(code) ==
    LET k == <<tolower(At(code, 1)), At(code, 2)>>
    IN  CASE k = <<"b", NUL>> -> "Boolean"
          [] k = <<"s", "1">> -> "SInt8"
          [] k = <<"u", "1">> -> "UInt8"
          [] k = <<"m", "1">> -> "Bitmap8"
          [] k = <<"s", "2">> -> "SInt16"
          [] k = <<"u", "2">> -> "UInt16"
          [] k = <<"m", "2">> -> "Bitmap16"
          [] k = <<"s", "4">> -> "SInt32"
          [] k = <<"u", "4">> -> "UInt32"
          [] k = <<"m", "4">> -> "Bitmap32"
          [] k = <<"s", "8">> -> "SInt64"
          [] k = <<"u", "8">> -> "UInt64"
          [] k = <<"m", "8">> -> "Bitmap64"
          [] OTHER -> "Invalid"

\* A name with every upper-case letter replaced by its lower-case letter.
Lowered(n) ==
    [i \in DOMAIN n |->
        IF \E j \in DOMAIN UpperSeq : UpperSeq[j] = n[i]
        THEN LowerSeq[CHOOSE j \in DOMAIN UpperSeq : UpperSeq[j] = n[i]]
        ELSE n[i]]

ValueName == <<"v", "a", "l", "u", "e">>

\* The item is a typecode standing as a whole token, optionally followed by
\* whitespace and a name.
IsFieldSpecification(it) ==
    /\ Len(it.code) \in {1, 2}
    /\ TypecodeType(it.code) # "Invalid"
    /\ it.name # <<>> => it.gap # <<>>

\* Every field item but the last is followed by whitespace or a semicolon.
Delimited(d) == \A i \in 1..(Len(d.items) - 1) : d.items[i].sep # <<>>

OpensWithBrace(d) ==
    LET text == DescriptionText(d)
    IN  At(text, SkipSpace(text, 1)) = "{"

ClosedByBrace(d) == "}" \in Range(DescriptionText(d))

DistinctNames(d) ==
    \A i, j \in DOMAIN d.items :
        i # j => Lowered(d.items[i].name) # Lowered(d.items[j].name)

WellFormed(d) ==
    /\ OpensWithBrace(d)
    /\ d.close = <<"}">>
    /\ Delimited(d)
    /\ \A i \in DOMAIN d.items : IsFieldSpecification(d.items[i])
    /\ \/ /\ Len(d.items) = 1
          /\ d.items[1].name = <<>>
          /\ d.items[1].sep = <<>>
       \/ /\ \A i \in DOMAIN d.items : d.items[i].name # <<>>
          /\ DistinctNames(d)

Created == pc \in {"createFromCString", "createWithFieldNamesAndTypes"}

\* C1: in every schema a constructor returns, field 0 is at offset 0, each
\* field's offset plus its width is the next field's offset, and the last
\* field's offset plus its width is byteSize(): fields are packed in declared
\* order with no padding.
C1_OffsetsPacked ==
    (Created /\ uvcType # nullptr) =>
        LET t == uvcType[1]
            n == fieldCount(t)
            w(i) == UVCTypeComponentByteSize(fieldTypeAtIndex(t, i))
        IN  /\ n > 0 => offsetToFieldAtIndex(t, 0) = 0
            /\ \A i \in 0..(n - 2) :
                   offsetToFieldAtIndex(t, i) + w(i)
                       = offsetToFieldAtIndex(t, i + 1)
            /\ n > 0 => offsetToFieldAtIndex(t, n - 1) + w(n - 1) = byteSize(t)

C1_Witness ==
    /\ pc = "createFromCString"
    /\ descr = SigPanTiltAbs
    /\ uvcType # nullptr
    /\ fieldCount(uvcType[1]) = 2
    /\ offsetToFieldAtIndex(uvcType[1], 1) = 4
    /\ byteSize(uvcType[1]) = 8

\* C5: a well-formed description with n field specifications yields a schema
\* of exactly n fields in textual order, each with the atomic type its
\* typecode denotes (in either letter case) and its name lower-cased; a lone
\* typecode without a name yields one field named "value".
C5_WellFormedParse ==
    (pc = "createFromCString" /\ WellFormed(descr)) =>
        /\ uvcType # nullptr
        /\ fieldCount(uvcType[1]) = Len(descr.items)
        /\ \A i \in DOMAIN descr.items :
            /\ fieldTypeAtIndex(uvcType[1], i - 1)
                   = TypecodeType(descr.items[i].code)
            /\ fieldNameAtIndex(uvcType[1], i - 1)
                   = IF descr.items[i].name = <<>> THEN ValueName
                     ELSE Lowered(descr.items[i].name)

C5_Witness ==
    /\ pc = "createFromCString"
    /\ descr = SigZoomRel
    /\ uvcType # nullptr
    /\ fieldCount(uvcType[1]) = 3
    /\ offsetToFieldAtIndex(uvcType[1], 0) = 0
    /\ offsetToFieldAtIndex(uvcType[1], 1) = 1
    /\ offsetToFieldAtIndex(uvcType[1], 2) = 2
    /\ byteSize(uvcType[1]) = 3

\* C6: createFromCString returns no schema whenever the description does not
\* open with '{' after leading whitespace, or no closing '}' ends the field
\* list before the end of the text.
C6_BracesRequired ==
    (pc = "createFromCString" /\ (~OpensWithBrace(descr) \/ ~ClosedByBrace(descr)))
        => uvcType = nullptr

\* C7: createFromCString returns no schema whenever some field specification
\* does not start with a recognised typecode standing as a whole token.
C7_TypecodeRequired ==
    (/\ pc = "createFromCString"
     /\ \E i \in DOMAIN descr.items : ~IsFieldSpecification(descr.items[i]))
        => uvcType = nullptr

\* C8: a description of two or more fields in which some field has no name
\* is rejected: a nameless field is accepted only as the schema's only field.
C8_NameRequired ==
    (/\ pc = "createFromCString"
     /\ Len(descr.items) >= 2
     /\ \E i \in DOMAIN descr.items : descr.items[i].name = <<>>)
        => uvcType = nullptr

\* C9: createFromCString returns no schema whenever two fields of the
\* description have the same name under case-insensitive comparison.
C9_DuplicateRejected ==
    (/\ pc = "createFromCString"
     /\ Delimited(descr)
     /\ \E i, j \in DOMAIN descr.items :
            /\ i # j
            /\ descr.items[i].name # <<>>
            /\ Lowered(descr.items[i].name) = Lowered(descr.items[j].name))
        => uvcType = nullptr

C9_Witness ==
    /\ pc = "createFromCString"
    /\ descr = Signature(<<Item(<<"U", "1">>, <<" ">>, <<"a">>, <<";">>),
                           Item(<<"U", "1">>, <<" ">>, <<"A">>, <<>>)>>)
    /\ uvcType = nullptr

-----------------------------------------------------------------------------
(* Properties of schema equality.                                          *)

SameTypes(a, b) ==
    /\ fieldCount(a) = fieldCount(b)
    /\ \A i \in 0..(fieldCount(a) - 1) :
           fieldTypeAtIndex(a, i) = fieldTypeAtIndex(b, i)

\* C10: isEqual is reflexive (a schema equals itself) and symmetric (a equals
\* b exactly when b equals a), and a equals b exactly when both have the same
\* field count and the same atomic type at every field index, whatever the
\* fields are called.
C10_IsEqualByTypes ==
    pc = "isEqual" =>
        /\ equalResult[3]
        /\ equalResult[1] = equalResult[2]
        /\ equalResult[1] <=> SameTypes(uvcType[1], otherType[1])

C10_Witness ==
    /\ pc = "isEqual"
    /\ descr = FieldAB(<<"S", "2">>, <<"a">>, <<"U", "1">>, <<"b">>)
    /\ otherType = createFromCString(DescriptionText(
                       FieldAB(<<"S", "2">>, <<"x">>, <<"U", "1">>, <<"y">>)))
    /\ fieldNameAtIndex(otherType[1], 0) # fieldNameAtIndex(uvcType[1], 0)
    /\ equalResult = <<TRUE, TRUE, TRUE>>

-----------------------------------------------------------------------------
(* Properties of the codec.                                                *)

OnlyFieldType == fieldTypeAtIndex(uvcType[1], 0)

\* The buffer holds a value of the type: any bytes for an integer or bitmap,
\* 0 or 1 for a Boolean.
Representable(ty, buf) == ty = "Boolean" => buf[1] \in {0, 1}

\* C2: for a single-field schema of any atomic type and a buffer holding any
\* value of that type, scanning the text stringFromBuffer wrote into a fresh
\* buffer succeeds and leaves the original bytes in it.
C2_RoundTrip ==
    (/\ pc = "stringFromBuffer;scanCString"
     /\ fieldCount(uvcType[1]) = 1
     /\ Representable(OnlyFieldType, buffer0))
        => (scanResult /\ buffer = buffer0)

\* C3: for a schema that needs byte swapping, byteSwapHostToUSBEndian
\* followed by byteSwapUSBToHostEndian leaves the buffer with the bytes it
\* started with.
C3_SwapRoundTrip ==
    (pc = "hostToUSB;usbToHost" /\ ~uvcType[1]._needsNoByteSwap)
        => buffer = buffer0

C3_Witness ==
    /\ pc = "hostToUSB;usbToHost"
    /\ hostBigEndian
    /\ descr = SigPanTiltAbs
    /\ ~uvcType[1]._needsNoByteSwap
    /\ byteSwapHostToUSBEndian(uvcType[1], buffer0) # buffer0
    /\ buffer = buffer0

NoBooleanField(t) ==
    \A i \in 0..(fieldCount(t) - 1) : fieldTypeAtIndex(t, i) # "Boolean"

\* C4: for a schema of two or more integer or bitmap fields, scanning the
\* canonical text {name1=v1,name2=v2,...} of in-range decimal literals
\* succeeds, and stringFromBuffer on the resulting buffer writes that same
\* text.
C4_CanonicalRoundTrip ==
    (/\ pc = "scanCString;stringFromBuffer"
     /\ written.form = "canonical"
     /\ fieldCount(uvcType[1]) >= 2
     /\ NoBooleanField(uvcType[1]))
        => (scanResult /\ formatted = cString)

-----------------------------------------------------------------------------
(* Properties of the alternate constructor and of field names.             *)

\* The 13 atomic types: every enumerator but Invalid and Max.
AtomicTypes == Range(UVCTypeComponentType) \ {"Invalid", "Max"}

\* C11: createWithFieldNamesAndTypes returns no schema when the two lists
\* differ in length, a name is empty or a type is not one of the 13 atomic
\* types (Invalid included); otherwise it returns a schema with exactly those
\* fields in the given order.
C11_AlternateConstructor ==
    pc = "createWithFieldNamesAndTypes" =>
        IF \/ Len(names) # Len(types)
           \/ \E i \in DOMAIN names : names[i] = <<>>
           \/ \E i \in DOMAIN types : types[i] \notin AtomicTypes
        THEN uvcType = nullptr
        ELSE /\ uvcType # nullptr
             /\ fieldCount(uvcType[1]) = Len(names)
             /\ \A i \in DOMAIN names :
                    /\ fieldNameAtIndex(uvcType[1], i - 1) = names[i]
                    /\ fieldTypeAtIndex(uvcType[1], i - 1) = types[i]

\* C12: in every schema a constructor returns, every field name is
\* non-empty, no two names are equal ignoring case, and
\* indexOfFieldWithName of each field's own name is that field's index.
C12_NamesUnique ==
    (Created /\ uvcType # nullptr) =>
        LET t == uvcType[1]
            name(i) == fieldNameAtIndex(t, i)
        IN  \A i \in 0..(fieldCount(t) - 1) :
                /\ name(i) # <<>>
                /\ \A j \in 0..(fieldCount(t) - 1) :
                       i # j => Lowered(name(i)) # Lowered(name(j))
                /\ indexOfFieldWithName(t, name(i)) = i

-----------------------------------------------------------------------------
(* Inputs of scanCString: schemas, external buffers and texts.  A text is  *)
(* kept as written: its form, the fields its entries are for and the value *)
(* token of each entry; the C string is composed from these and a layout   *)
(* (the whitespace at each token boundary).                                *)

ScanSignatures == {SigB, SigS2, SigPanTiltAbs, SigBoolByte, SigByteWord}

\* The pointer arguments minimum, maximum, stepSize, defaultValue of the
\* UVCValue::scanCString overloads: each null or a buffer.
LimitChoices(t) ==
    {[minimum      |-> IF range THEN <<ExternalBuffer(t, 16)>> ELSE <<>>,
      maximum      |-> IF range THEN <<ExternalBuffer(t, 32)>> ELSE <<>>,
      stepSize     |-> IF range THEN <<ExternalBuffer(t, 64)>> ELSE <<>>,
      defaultValue |-> IF dflt THEN <<ExternalBuffer(t, 48)>> ELSE <<>>] :
        range \in BOOLEAN, dflt \in BOOLEAN}

KeywordTokens == {DefaultWord, MinimumWord, MaximumWord}

TrueTokens == {<<"y">>, <<"y", "e", "s">>, TrueText, <<"t">>, <<"1">>}

FalseTokens == {<<"n">>, <<"n", "o">>, FalseText, <<"f">>, <<"0">>}

\* Value tokens for a field of type ty: all of them for a text of one value,
\* fewer for each entry of a list.
ValueTokens(ty, inList) ==
    KeywordTokens
    \cup (IF ty = "Boolean"
          THEN IF inList
               THEN {TrueText, <<"0">>, <<"2">>, <<"y", "e", "s">>, <<"n", "o">>}
               ELSE TrueTokens \cup FalseTokens
                    \cup {<<"2">>, <<"-", "1">>, <<"0", "x", "1", "0">>,
                          <<"x">>}
          ELSE IF inList THEN {<<"1", "0">>, <<"-", "5">>}
               ELSE {<<"1", "0">>, <<"-", "5">>, <<"0", "x", "1", "0">>,
                     <<"x">>})

\* The value tokens of the entries of a list whose entries are for the given
\* fields (1-based field numbers).
EntryValues(t, fields) ==
    {vs \in [DOMAIN fields ->
                ValueTokens("Boolean", TRUE) \cup ValueTokens("SInt8", TRUE)] :
        \A i \in DOMAIN fields :
            vs[i] \in ValueTokens(t._fields[fields[i]].fieldType, TRUE)}

\* One plain literal for each entry: true or 0 for a Boolean field, 10 or -5
\* for any other, 10 for an entry whose field number is 0 (no field).
PlainTokens(ty) ==
    IF ty = "Boolean" THEN {TrueText, <<"0">>}
    ELSE {<<"1", "0">>, <<"-", "5">>}

PlainValues(t, fields) ==
    {vs \in [DOMAIN fields -> PlainTokens("Boolean") \cup PlainTokens("SInt8")] :
        \A i \in DOMAIN fields :
            vs[i] \in (IF fields[i] = 0 THEN {<<"1", "0">>}
                       ELSE PlainTokens(t._fields[fields[i]].fieldType))}

\* The orders in which every field of the schema is written once.
FieldOrders(t) ==
    {fs \in [DOMAIN t._fields -> DOMAIN t._fields] :
        \A i, j \in DOMAIN fs : fs[i] = fs[j] => i = j}

ScanInputs(t) ==
    {[form |-> f, fields |-> <<>>, values |-> <<k>>] :
        f \in {"keyword", "KEYWORD", "keywordx"}, k \in KeywordTokens}
    \cup (IF Len(t._fields) = 1
          THEN {[form |-> "single", fields |-> <<1>>, values |-> <<v>>] :
                   v \in ValueTokens(t._fields[1].fieldType, FALSE)}
          ELSE {})
    \cup UNION {{[form |-> "positional", fields |-> [i \in 1..k |-> i],
                  values |-> vs] : vs \in EntryValues(t, [i \in 1..k |-> i])} :
                   k \in 0..Len(t._fields)}
    \cup UNION {{[form |-> "named", fields |-> fs, values |-> vs] :
                    vs \in EntryValues(t, fs)} :
                   fs \in UNION {[1..k -> DOMAIN t._fields] :
                                    k \in 1..Len(t._fields)}}
    \cup UNION {{[form |-> "NAMED", fields |-> fs, values |-> vs] :
                    vs \in PlainValues(t, fs)} : fs \in FieldOrders(t)}
    \cup UNION {{[form |-> "misnamed", fields |-> fs, values |-> vs] :
                    vs \in PlainValues(t, fs)} :
                   fs \in {[i \in DOMAIN t._fields |-> IF i = j THEN 0 ELSE i] :
                              j \in DOMAIN t._fields}}

toupper(c) ==
    IF \E i \in DOMAIN LowerSeq : LowerSeq[i] = c
    THEN UpperSeq[CHOOSE i \in DOMAIN LowerSeq : LowerSeq[i] = c]
    ELSE c

\* The whitespace written at each token boundary of a braced list.
Layout(open, beforeEq, afterEq, beforeComma, afterComma, close) ==
    [open |-> open, beforeEq |-> beforeEq, afterEq |-> afterEq,
     beforeComma |-> beforeComma, afterComma |-> afterComma, close |-> close]

Compact == Layout(<<>>, <<>>, <<>>, <<>>, <<>>, <<>>)

Layouts ==
    {Compact,
     Layout(<<" ">>, <<" ">>, <<" ">>, <<" ">>, <<" ">>, <<" ">>),
     Layout(<<" ">>, <<>>, <<>>, <<>>, <<>>, <<" ">>),
     Layout(<<>>, <<" ">>, <<>>, <<>>, <<>>, <<>>),
     Layout(<<>>, <<>>, <<" ">>, <<>>, <<>>, <<>>),
     Layout(<<>>, <<>>, <<>>, <<" ">>, <<>>, <<>>),
     Layout(<<>>, <<>>, <<>>, <<>>, <<" ">>, <<>>)}

\* The name an entry is written with: the field's, the field's in upper
\* case, or a name no field of these schemas has.
EntryName(t, w, idx) ==
    IF w.fields[idx] = 0 THEN <<"z", "o", "o", "m">>
    ELSE IF w.form = "NAMED"
    THEN [i \in DOMAIN t._fields[w.fields[idx]].fieldName |->
             toupper(t._fields[w.fields[idx]].fieldName[i])]
    ELSE t._fields[w.fields[idx]].fieldName

RECURSIVE BracedEntries(_, _, _, _)
BracedEntries(t, w, layout, idx) ==
    IF idx > Len(w.fields) THEN <<>>
    ELSE (IF idx > 1 THEN layout.beforeComma \o <<",">> \o layout.afterComma
          ELSE <<>>)
         \o (IF w.form = "positional" THEN <<>>
             ELSE EntryName(t, w, idx)
                  \o layout.beforeEq \o <<"=">> \o layout.afterEq)
         \o w.values[idx]
         \o BracedEntries(t, w, layout, idx + 1)

\* The C string of an input in a layout.
TextOf(t, w, layout) ==
    CASE w.form = "keyword" -> w.values[1]
      [] w.form = "KEYWORD" ->
             <<" ">> \o [i \in DOMAIN w.values[1] |-> toupper(w.values[1][i])]
      [] w.form = "keywordx" -> w.values[1] \o <<"x">>
      [] w.form = "single" -> w.values[1]
      [] OTHER -> <<"{">> \o layout.open \o BracedEntries(t, w, layout, 1)
                  \o layout.close \o <<"}">>

-----------------------------------------------------------------------------
(* scanCString as a state machine: a schema, a target buffer with earlier  *)
(* contents and the external buffers exist; a text is scanned, and then    *)
(* scanned once more into the same earlier contents with verbosity flags   *)
(* set or with whitespace inserted.                                        *)

\* The target buffer's contents before a scan: no byte a scan would store.
Untouched(t) == [i \in 1..byteSize(t) |-> 170]

ScanInit ==
    /\ hostBigEndian \in BOOLEAN
    /\ pc = "ready"
    /\ descr \in ScanSignatures
    /\ names = <<>>
    /\ types = <<>>
    /\ uvcType = createFromCString(DescriptionText(descr))
    /\ otherType = nullptr
    /\ equalResult = <<>>
    /\ buffer = Untouched(uvcType[1])
    /\ buffer0 = buffer
    /\ cString = <<>>
    /\ written = NotWritten
    /\ limits \in LimitChoices(uvcType[1])
    /\ scanResult = FALSE
    /\ formatted = <<>>
    /\ scanFlags = {}
    /\ warned = FALSE
    /\ rescan = <<>>
    /\ value = nullptr
    /\ otherValue = nullptr
    /\ fieldPointer = nullptr
    /\ DeviceIdle

\* type->scanCString(text, buffer, 0, minimum, maximum, stepSize, defaultValue)
Scan ==
    /\ pc = "ready"
    /\ \E w \in ScanInputs(uvcType[1]) :
       \E text \in {TextOf(uvcType[1], w, Compact)} :
       \E r \in {scanCString(uvcType[1], text, buffer, {}, limits)} :
        /\ cString' = text
        /\ written' = w
        /\ buffer' = r.buf
        /\ scanResult' = r.ok
        /\ warned' = r.warned
    /\ pc' = "scanCString"
    /\ UNCHANGED <<hostBigEndian, buffer0, limits, formatted, scanFlags, rescan>>
    /\ UNCHANGED typeVars
    /\ UNCHANGED valueVars
    /\ UNCHANGED deviceVars

\* The same text into a buffer with the same earlier contents, with
\* ShowWarnings, ShowInfo or both set.
RescanWithFlags ==
    /\ pc = "scanCString"
    /\ \E f \in (SUBSET {"ShowWarnings", "ShowInfo"}) \ {{}} :
       \E r \in {scanCString(uvcType[1], cString, buffer0, f, limits)} :
        /\ scanFlags' = f
        /\ rescan' = [text |-> cString, ok |-> r.ok, buf |-> r.buf,
                      warned |-> r.warned]
    /\ pc' = "scanCString;flags"
    /\ UNCHANGED <<hostBigEndian, buffer, buffer0, cString, written, limits,
                   scanResult, formatted, warned>>
    /\ UNCHANGED typeVars
    /\ UNCHANGED valueVars
    /\ UNCHANGED deviceVars

\* The same braced list with whitespace at some token boundaries, into a
\* buffer with the same earlier contents.
RescanSpaced ==
    /\ pc = "scanCString"
    /\ written.form \in {"positional", "named"}
    /\ \E layout \in Layouts \ {Compact} :
       \E text \in {TextOf(uvcType[1], written, layout)} :
       \E r \in {scanCString(uvcType[1], text, buffer0, {}, limits)} :
        rescan' = [text |-> text, ok |-> r.ok, buf |-> r.buf,
                   warned |-> r.warned]
    /\ pc' = "scanCString;spaced"
    /\ UNCHANGED <<hostBigEndian, buffer, buffer0, cString, written, limits,
                   scanResult, formatted, scanFlags, warned>>
    /\ UNCHANGED typeVars
    /\ UNCHANGED valueVars
    /\ UNCHANGED deviceVars

ScanNext == Scan \/ RescanWithFlags \/ RescanSpaced

SpecScan == ScanInit /\ [][ScanNext]_vars

-----------------------------------------------------------------------------
(* Properties of scanCString.                                              *)

Braced == written.form \in {"positional", "named"}

WholeKeyword == written.form \in {"keyword", "KEYWORD", "keywordx"}

\* The external buffer a keyword stands for (<<>> when the pointer is null).
ExternalFor(k) ==
    IF k = DefaultWord THEN limits.defaultValue
    ELSE IF k = MinimumWord THEN limits.minimum
    ELSE limits.maximum

\* The bytes of field number f (1-based) in a buffer of the schema.
FieldBytes(t, buf, f) ==
    SubSeq(buf, offsetToFieldAtIndex(t, f - 1) + 1,
           offsetToFieldAtIndex(t, f - 1)
               + UVCTypeComponentByteSize(fieldTypeAtIndex(t, f - 1)))

\* Every field of the schema has exactly one entry in the list.
EveryFieldOnce ==
    /\ Len(written.fields) = fieldCount(uvcType[1])
    /\ Range(written.fields) = DOMAIN uvcType[1]._fields

\* C13: a braced text whose entries leave some field of the schema without a
\* value (fewer values than fields, or a field named twice and another not
\* at all) makes scanCString return false.
C13_EveryFieldAssigned ==
    (/\ pc = "scanCString"
     /\ Braced
     /\ Range(written.fields) # DOMAIN uvcType[1]._fields)
        => ~scanResult

\* C14: when the text begins, after leading whitespace and in any letter
\* case, with default, minimum or maximum, scanCString returns true with the
\* target buffer equal to the whole external buffer of that keyword if that
\* buffer is present, and returns false if it is absent.
C14_WholeKeyword ==
    (pc = "scanCString" /\ WholeKeyword) =>
        IF ExternalFor(written.values[1]) # <<>>
        THEN scanResult /\ buffer = ExternalFor(written.values[1])[1]
        ELSE ~scanResult

C14_Witness ==
    /\ pc = "scanCString"
    /\ descr = SigPanTiltAbs
    /\ written.form = "KEYWORD"
    /\ written.values = <<MinimumWord>>
    /\ limits.minimum # <<>>
    /\ scanResult
    /\ buffer = limits.minimum[1]
    /\ buffer # buffer0

\* C15: in a braced list with one entry for every field, each value a
\* literal of the field's type or a keyword whose external buffer is
\* present, the scan succeeds and every field written as a keyword holds the
\* bytes of that keyword's external buffer at the field's offset and width.
C15_FieldKeyword ==
    (/\ pc = "scanCString"
     /\ Braced
     /\ EveryFieldOnce
     /\ \A i \in DOMAIN written.values :
            IF written.values[i] \in KeywordTokens
            THEN ExternalFor(written.values[i]) # <<>>
            ELSE written.values[i] # <<"2">>)
        => /\ scanResult
           /\ \A i \in DOMAIN written.values :
                  written.values[i] \in KeywordTokens =>
                      FieldBytes(uvcType[1], buffer, written.fields[i])
                          = FieldBytes(uvcType[1],
                                       ExternalFor(written.values[i])[1],
                                       written.fields[i])

\* C16: after a successful scan of a text without keywords, every Boolean
\* field the text gave a value holds 0 or 1: 1 for y, yes, true, t and 1,
\* 0 for n, no, false, f and 0.
C16_BooleanStored ==
    (/\ pc = "scanCString"
     /\ scanResult
     /\ written.form \in {"single", "positional", "named"}
     /\ \A i \in DOMAIN written.values : written.values[i] \notin KeywordTokens
     /\ \A i, j \in DOMAIN written.fields :
            written.fields[i] = written.fields[j] => i = j)
        => \A i \in DOMAIN written.fields :
               fieldTypeAtIndex(uvcType[1], written.fields[i] - 1) = "Boolean"
                   => LET b == FieldBytes(uvcType[1], buffer,
                                          written.fields[i])[1]
                      IN  /\ b \in {0, 1}
                          /\ written.values[i] \in TrueTokens => b = 1
                          /\ written.values[i] \in FalseTokens => b = 0

\* C17: a braced text that scanCString accepts is accepted with the same
\* resulting buffer when spaces are inserted at its token boundaries.
C17_WhitespaceIgnored ==
    (pc = "scanCString;spaced" /\ scanResult)
        => (rescan.ok /\ rescan.buf = buffer)

\* C18: scanCString with ShowWarnings, ShowInfo or both set returns the same
\* value and leaves the same bytes in the target buffer as with the flags
\* clear, for the same text, schema, earlier contents and external buffers.
C18_FlagsNoEffect ==
    pc = "scanCString;flags"
        => (rescan.ok = scanResult /\ rescan.buf = buffer)

C18_Witness ==
    /\ pc = "scanCString;flags"
    /\ scanFlags = {"ShowWarnings", "ShowInfo"}
    /\ written.values = <<DefaultWord>>
    /\ limits.defaultValue = <<>>
    /\ ~warned
    /\ rescan.warned
    /\ ~scanResult
    /\ ~rescan.ok

\* C27: in a positional list with an entry for every field, each Boolean
\* field written as one of the ten literals and each other field (of one
\* byte) as 10 or -5, the scan succeeds, each Boolean field holds 1 or 0 as
\* its literal says, and each other field holds its number.
C27_LongestLiteral ==
    (/\ pc = "scanCString"
     /\ written.form = "positional"
     /\ EveryFieldOnce
     /\ \E i \in DOMAIN written.fields :
            fieldTypeAtIndex(uvcType[1], i - 1) = "Boolean"
     /\ \A i \in DOMAIN written.fields :
            IF fieldTypeAtIndex(uvcType[1], i - 1) = "Boolean"
            THEN written.values[i] \in TrueTokens \cup FalseTokens
            ELSE /\ UVCTypeComponentByteSize(
                        fieldTypeAtIndex(uvcType[1], i - 1)) = 1
                 /\ written.values[i] \in {<<"1", "0">>, <<"-", "5">>})
        => /\ scanResult
           /\ \A i \in DOMAIN written.fields :
                  FieldBytes(uvcType[1], buffer, i) =
                      IF written.values[i] \in TrueTokens THEN <<1>>
                      ELSE IF written.values[i] \in FalseTokens THEN <<0>>
                      ELSE IF written.values[i] = <<"1", "0">> THEN <<10>>
                      ELSE <<251>>

\* C28: scanning an integer literal of value v into the only field, of width
\* w and not Boolean, of a schema succeeds and stores v mod 2^(8w), with the
\* limit buffers given or not.
C28_WidthTruncation ==
    pc = "scanLiteral" =>
        /\ scanResult
        /\ buffer = HostOrder(SubSeq(written.values[1].mod64, 1, Len(buffer)))

\* The bytes a plain literal leaves in a field of the given type.
TokenBytes(ty, token) ==
    HostOrder(IF token = TrueText THEN <<1>>
              ELSE IF token = <<"0">> THEN <<0>>
              ELSE IF token = <<"1", "0">>
              THEN <<10>> \o Zeros(UVCTypeComponentByteSize(ty) - 1)
              ELSE <<251>>
                   \o [i \in 1..(UVCTypeComponentByteSize(ty) - 1) |-> 255])

-----------------------------------------------------------------------------
(* The container: a schema pointer, a buffer and the swapped flag.  A      *)
(* pointer into the buffer is <<offset>>, the null pointer is <<>>.        *)

offsetToFieldWithName(t, fieldName) ==
    IF indexOfFieldWithName(t, fieldName) = UVCTypeInvalidIndex
    THEN UVCTypeInvalidIndex
    ELSE offsetToFieldAtIndex(t, indexOfFieldWithName(t, fieldName))

\* UVCValue::UVCValue(valueType)
UVCValue(valueType) ==
    [_isSwappedToUSBEndian |-> FALSE,
     _valueType |-> valueType,
     _valueData |-> IF valueType # nullptr THEN Zeros(byteSize(valueType[1]))
                    ELSE <<>>]

\* UVCValue::create
create(valueType) ==
    IF valueType = nullptr THEN nullptr ELSE <<UVCValue(valueType)>>

\* UVCValue::byteSize
valueByteSize(v) ==
    IF v._valueType # nullptr THEN byteSize(v._valueType[1]) ELSE 0

\* _valueData.data() + offset, or nullptr.
PointerAt(v, offset) ==
    IF v._valueType = nullptr THEN nullptr
    ELSE IF offset = UVCTypeInvalidIndex THEN nullptr
    ELSE <<offset>>

pointerToFieldAtIndex(v, index) ==
    PointerAt(v, IF v._valueType = nullptr THEN UVCTypeInvalidIndex
                 ELSE offsetToFieldAtIndex(v._valueType[1], index))

pointerToFieldWithName(v, fieldName) ==
    PointerAt(v, IF v._valueType = nullptr THEN UVCTypeInvalidIndex
                 ELSE offsetToFieldWithName(v._valueType[1], fieldName))

\* byteSwapHostToUSBEndian transforming the buffer whatever the flag says.
valueByteSwapHostToUSBEndian_Always(v) ==
    [v EXCEPT !._valueData =
                  byteSwapHostToUSBEndian(v._valueType[1], v._valueData),
              !._isSwappedToUSBEndian = TRUE]

\* UVCValue::byteSwapHostToUSBEndian
valueByteSwapHostToUSBEndian(v) ==
    IF ~v._isSwappedToUSBEndian /\ v._valueType # nullptr
    THEN [v EXCEPT !._valueData =
                       byteSwapHostToUSBEndian(v._valueType[1], v._valueData),
                   !._isSwappedToUSBEndian = TRUE]
    ELSE v

\* UVCValue::byteSwapUSBToHostEndian
valueByteSwapUSBToHostEndian(v) ==
    IF v._isSwappedToUSBEndian /\ v._valueType # nullptr
    THEN [v EXCEPT !._valueData =
                       byteSwapUSBToHostEndian(v._valueType[1], v._valueData),
                   !._isSwappedToUSBEndian = FALSE]
    ELSE v

\* The value with its buffer as a scanCString call left it, and the result.
Scanned(v, r) == [value |-> [v EXCEPT !._valueData = r.buf], ok |-> r.ok]

\* UVCValue::scanCString(cString, flags): the value afterwards and the
\* result.
valueScanCString(v, s, flags) ==
    IF v._valueType = nullptr THEN [value |-> v, ok |-> FALSE]
    ELSE Scanned(v, scanCString(v._valueType[1], s, v._valueData, flags,
                                NoLimits))

\* UVCValue::stringValue
stringValue(v) ==
    IF v._valueType = nullptr THEN <<>>
    ELSE stringFromBuffer(v._valueType[1], v._valueData)

\* UVCValue::isEqual
valueIsEqual(v, other) ==
    IF v._valueType = nullptr \/ other._valueType = nullptr THEN FALSE
    ELSE IF ~isEqual(v._valueType[1], other._valueType[1]) THEN FALSE
    ELSE SubSeq(v._valueData, 1, byteSize(v._valueType[1]))
             = SubSeq(other._valueData, 1, byteSize(v._valueType[1]))

\* copyValue taking the other buffer whatever its schema.
copyValue_Unchecked(v, other) ==
    IF other = nullptr
    THEN [value |-> v, ok |-> FALSE]
    ELSE [value |-> [v EXCEPT !._valueData = other[1]._valueData,
                              !._isSwappedToUSBEndian =
                                  other[1]._isSwappedToUSBEndian],
          ok    |-> TRUE]

\* copyValue reporting success without copying a byte.
copyValue_NoCopy(v, other) ==
    IF other = nullptr THEN [value |-> v, ok |-> FALSE]
    ELSE [value |-> v,
          ok |-> isEqual(v._valueType[1], other[1]._valueType[1])]

\* UVCValue::copyValue(otherValue): the value afterwards and the result.
copyValue(v, other) ==
    IF other = nullptr \/ v._valueType = nullptr
       \/ other[1]._valueType = nullptr
    THEN [value |-> v, ok |-> FALSE]
    ELSE IF isEqual(v._valueType[1], other[1]._valueType[1])
    THEN [value |-> [v EXCEPT !._valueData =
                        CopyBytes(v._valueData, 0,
                                  SubSeq(other[1]._valueData, 1,
                                         byteSize(v._valueType[1]))),
                                !._isSwappedToUSBEndian =
                                    other[1]._isSwappedToUSBEndian],
          ok    |-> TRUE]
    ELSE [value |-> v, ok |-> FALSE]

-----------------------------------------------------------------------------
(* The container as a state machine: two containers are created, then any  *)
(* sequence of scans, swaps, copies and assignments acts on them.          *)

\* Schemas of the containers: from descriptions and from name and type lists.
ValueTypes ==
    {createFromCString(DescriptionText(SigPanTiltAbs))}
    \cup {createWithFieldNamesAndTypes(<<<<"a">>, <<"b">>>>,
                                       <<"SInt32", "SInt32">>),
          createWithFieldNamesAndTypes(<<<<"a">>, <<"b">>>>,
                                       <<"UInt32", "Invalid">>),
          createWithFieldNamesAndTypes(<<>>, <<>>)}

LookupNames ==
    {<<>>, <<"a">>, <<"A">>, <<"b">>, <<"p", "a", "n">>, <<"T", "i", "l", "t">>,
     <<"z">>}

ValueTexts == {<<"{", "1", ",", "-", "5", "}">>, <<"x">>}

\* What the call returned through formatted, equalResult and fieldPointer:
\* the values an earlier call returned are gone.
Returns(str, eq, ptr) ==
    /\ formatted' = str
    /\ equalResult' = eq
    /\ fieldPointer' = ptr

\* UVCValue::create(valueType), twice
Create ==
    /\ pc = "start"
    /\ \E a \in ValueTypes, b \in ValueTypes \cup {nullptr} :
        /\ uvcType' = a
        /\ otherType' = b
        /\ value' = create(a)
        /\ otherValue' = create(b)
    /\ pc' = "create"
    /\ Returns(<<>>, <<>>, nullptr)
    /\ UNCHANGED <<hostBigEndian, descr, names, types>>
    /\ UNCHANGED <<buffer, buffer0, cString, written, limits, scanResult>>
    /\ UNCHANGED scanVars
    /\ UNCHANGED deviceVars

\* value->scanCString(text, 0)
ValueScanCString ==
    /\ pc # "start"
    /\ \E text \in ValueTexts :
       \E r \in {valueScanCString(value[1], text, {})} :
        /\ cString' = text
        /\ value' = <<r.value>>
        /\ scanResult' = r.ok
    /\ pc' = "scanCString"
    /\ Returns(<<>>, <<>>, nullptr)
    /\ UNCHANGED <<hostBigEndian, buffer, buffer0, written, limits, otherValue>>
    /\ UNCHANGED <<descr, names, types, uvcType, otherType>>
    /\ UNCHANGED scanVars
    /\ UNCHANGED deviceVars

\* otherValue->scanCString(text, 0)
OtherScanCString ==
    /\ pc # "start"
    /\ otherValue # nullptr
    /\ \E text \in ValueTexts :
       \E r \in {valueScanCString(otherValue[1], text, {})} :
        /\ cString' = text
        /\ otherValue' = <<r.value>>
        /\ scanResult' = r.ok
    /\ pc' = "other.scanCString"
    /\ Returns(<<>>, <<>>, nullptr)
    /\ UNCHANGED <<hostBigEndian, buffer, buffer0, written, limits, value>>
    /\ UNCHANGED <<descr, names, types, uvcType, otherType>>
    /\ UNCHANGED scanVars
    /\ UNCHANGED deviceVars

\* value->byteSwapHostToUSBEndian()
ValueByteSwapHostToUSBEndian ==
    /\ pc # "start"
    /\ value' = <<valueByteSwapHostToUSBEndian(value[1])>>
    /\ pc' = "byteSwapHostToUSBEndian"
    /\ Returns(<<>>, <<>>, nullptr)
    /\ UNCHANGED <<hostBigEndian, otherValue>>
    /\ UNCHANGED <<buffer, buffer0, cString, written, limits, scanResult>>
    /\ UNCHANGED <<descr, names, types, uvcType, otherType>>
    /\ UNCHANGED scanVars
    /\ UNCHANGED deviceVars

\* value->byteSwapUSBToHostEndian()
ValueByteSwapUSBToHostEndian ==
    /\ pc # "start"
    /\ value' = <<valueByteSwapUSBToHostEndian(value[1])>>
    /\ pc' = "byteSwapUSBToHostEndian"
    /\ Returns(<<>>, <<>>, nullptr)
    /\ UNCHANGED <<hostBigEndian, otherValue>>
    /\ UNCHANGED <<buffer, buffer0, cString, written, limits, scanResult>>
    /\ UNCHANGED <<descr, names, types, uvcType, otherType>>
    /\ UNCHANGED scanVars
    /\ UNCHANGED deviceVars

\* otherValue->byteSwapHostToUSBEndian()
OtherByteSwapHostToUSBEndian ==
    /\ pc # "start"
    /\ otherValue # nullptr
    /\ otherValue' = <<valueByteSwapHostToUSBEndian(otherValue[1])>>
    /\ pc' = "other.byteSwapHostToUSBEndian"
    /\ Returns(<<>>, <<>>, nullptr)
    /\ UNCHANGED <<hostBigEndian, value>>
    /\ UNCHANGED <<buffer, buffer0, cString, written, limits, scanResult>>
    /\ UNCHANGED <<descr, names, types, uvcType, otherType>>
    /\ UNCHANGED scanVars
    /\ UNCHANGED deviceVars

\* value->copyValue(otherValue)
CopyValue ==
    /\ pc # "start"
    /\ \E r \in {copyValue(value[1], otherValue)} :
        /\ value' = <<r.value>>
        /\ scanResult' = r.ok
    /\ pc' = "copyValue"
    /\ Returns(<<>>, <<>>, nullptr)
    /\ UNCHANGED <<hostBigEndian, buffer, buffer0, cString, written, limits,
                   otherValue>>
    /\ UNCHANGED <<descr, names, types, uvcType, otherType>>
    /\ UNCHANGED scanVars
    /\ UNCHANGED deviceVars

\* *value = *otherValue
CopyAssign ==
    /\ pc # "start"
    /\ otherValue # nullptr
    /\ value' = otherValue
    /\ pc' = "operator="
    /\ Returns(<<>>, <<>>, nullptr)
    /\ UNCHANGED <<hostBigEndian, otherValue>>
    /\ UNCHANGED <<buffer, buffer0, cString, written, limits, scanResult>>
    /\ UNCHANGED <<descr, names, types, uvcType, otherType>>
    /\ UNCHANGED scanVars
    /\ UNCHANGED deviceVars

\* value->stringValue()
StringValue ==
    /\ pc # "start"
    /\ Returns(stringValue(value[1]), <<>>, nullptr)
    /\ pc' = "stringValue"
    /\ UNCHANGED <<hostBigEndian, value, otherValue>>
    /\ UNCHANGED <<buffer, buffer0, cString, written, limits, scanResult>>
    /\ UNCHANGED <<descr, names, types, uvcType, otherType>>
    /\ UNCHANGED scanVars
    /\ UNCHANGED deviceVars

\* value->isEqual(*otherValue)
ValueIsEqual ==
    /\ pc # "start"
    /\ otherValue # nullptr
    /\ Returns(<<>>, valueIsEqual(value[1], otherValue[1]), nullptr)
    /\ pc' = "isEqual"
    /\ UNCHANGED <<hostBigEndian, value, otherValue>>
    /\ UNCHANGED <<buffer, buffer0, cString, written, limits, scanResult>>
    /\ UNCHANGED <<descr, names, types, uvcType, otherType>>
    /\ UNCHANGED scanVars
    /\ UNCHANGED deviceVars

\* value->pointerToFieldAtIndex(index), value->pointerToFieldWithName(name)
PointerToField ==
    /\ pc # "start"
    /\ \/ \E index \in 0..MaxFields :
            Returns(<<>>, <<>>, pointerToFieldAtIndex(value[1], index))
       \/ \E fieldName \in {<<"a">>, <<"B">>, <<"z">>} :
            Returns(<<>>, <<>>, pointerToFieldWithName(value[1], fieldName))
    /\ pc' = "pointerToField"
    /\ UNCHANGED <<hostBigEndian, value, otherValue>>
    /\ UNCHANGED <<buffer, buffer0, cString, written, limits, scanResult>>
    /\ UNCHANGED <<descr, names, types, uvcType, otherType>>
    /\ UNCHANGED scanVars
    /\ UNCHANGED deviceVars

ValueNext ==
    \/ Create
    \/ ValueScanCString
    \/ OtherScanCString
    \/ ValueByteSwapHostToUSBEndian
    \/ ValueByteSwapUSBToHostEndian
    \/ OtherByteSwapHostToUSBEndian
    \/ CopyValue
    \/ CopyAssign
    \/ StringValue
    \/ ValueIsEqual
    \/ PointerToField

SpecValue == TypeInit /\ [][ValueNext]_vars

-----------------------------------------------------------------------------
(* Properties of the container.                                            *)

\* The numbers (0-based) of the fields whose name is the given one, ignoring
\* case.
FieldsNamed(t, fieldName) ==
    {i \in 0..(fieldCount(t) - 1) :
        Lowered(fieldNameAtIndex(t, i)) = Lowered(fieldName)}

\* C19: for an index at or beyond fieldCount the lookups return
\* UVCTypeInvalidIndex, Invalid, the empty name and a null pointer; for a name
\* no field has they return UVCTypeInvalidIndex and a null pointer; for a
\* valid index or name the offset returned is that of the field, it is
\* strictly less than byteSize(), and the pointer is the buffer's start plus
\* that offset.
C19_LookupsInBounds ==
    value # nullptr =>
        LET v == value[1]
            t == v._valueType[1]
        IN  /\ \A index \in 0..(fieldCount(t) + 1) :
                IF index >= fieldCount(t)
                THEN /\ offsetToFieldAtIndex(t, index) = UVCTypeInvalidIndex
                     /\ fieldTypeAtIndex(t, index) = "Invalid"
                     /\ fieldNameAtIndex(t, index) = <<>>
                     /\ pointerToFieldAtIndex(v, index) = nullptr
                ELSE /\ offsetToFieldAtIndex(t, index) < byteSize(t)
                     /\ pointerToFieldAtIndex(v, index)
                            = <<offsetToFieldAtIndex(t, index)>>
            /\ \A fieldName \in LookupNames :
                IF FieldsNamed(t, fieldName) = {}
                THEN /\ indexOfFieldWithName(t, fieldName) = UVCTypeInvalidIndex
                     /\ offsetToFieldWithName(t, fieldName) = UVCTypeInvalidIndex
                     /\ pointerToFieldWithName(v, fieldName) = nullptr
                ELSE /\ indexOfFieldWithName(t, fieldName)
                            \in FieldsNamed(t, fieldName)
                     /\ offsetToFieldWithName(t, fieldName)
                            = offsetToFieldAtIndex(t,
                                  indexOfFieldWithName(t, fieldName))
                     /\ offsetToFieldWithName(t, fieldName) < byteSize(t)
                     /\ pointerToFieldWithName(v, fieldName)
                            = <<offsetToFieldWithName(t, fieldName)>>

\* C20: after creation and any sequence of scanCString, byteSwapHostToUSBEndian,
\* byteSwapUSBToHostEndian, copyValue and copy-assignment, the length of each
\* container's buffer is its schema's byteSize().
C20_BufferLength ==
    /\ value # nullptr =>
           Len(value[1]._valueData) = byteSize(value[1]._valueType[1])
    /\ otherValue # nullptr =>
           Len(otherValue[1]._valueData)
               = byteSize(otherValue[1]._valueType[1])

C20_Witness ==
    /\ pc = "copyValue"
    /\ scanResult
    /\ otherValue # nullptr
    /\ value[1]._valueType # otherValue[1]._valueType
    /\ value[1]._valueData = otherValue[1]._valueData
    /\ value[1]._valueData # Zeros(8)
    /\ Len(value[1]._valueData) = 8

\* The container operations that are not swaps.
OtherOperations ==
    {"scanCString", "stringValue", "copyValue", "isEqual", "pointerToField"}

\* C21: _isSwappedToUSBEndian is false in a container just created, and a
\* step of scanCString, stringValue, copyValue, isEqual or field-pointer
\* access leaves the flag of the container it is called on as it was.
C21_FlagOnlyBySwaps ==
    [][/\ pc' = "create" =>
            /\ ~value'[1]._isSwappedToUSBEndian
            /\ otherValue' # nullptr =>
                   ~otherValue'[1]._isSwappedToUSBEndian
       /\ pc' \in OtherOperations =>
            value'[1]._isSwappedToUSBEndian = value[1]._isSwappedToUSBEndian
       /\ pc' = "other.scanCString" =>
            otherValue'[1]._isSwappedToUSBEndian
                = otherValue[1]._isSwappedToUSBEndian]_vars

\* C22: byteSwapHostToUSBEndian on a container whose flag is set, and
\* byteSwapUSBToHostEndian on one whose flag is clear, change neither the
\* buffer nor the flag; called from the opposite state, each applies the
\* schema's transform once to the buffer and flips the flag.
C22_SwapsByState ==
    [][/\ pc' = "byteSwapHostToUSBEndian" =>
            IF value[1]._isSwappedToUSBEndian
            THEN value' = value
            ELSE /\ value'[1]._isSwappedToUSBEndian
                 /\ value'[1]._valueType = value[1]._valueType
                 /\ value'[1]._valueData
                        = byteSwapHostToUSBEndian(value[1]._valueType[1],
                                                  value[1]._valueData)
       /\ pc' = "byteSwapUSBToHostEndian" =>
            IF ~value[1]._isSwappedToUSBEndian
            THEN value' = value
            ELSE /\ ~value'[1]._isSwappedToUSBEndian
                 /\ value'[1]._valueType = value[1]._valueType
                 /\ value'[1]._valueData
                        = byteSwapUSBToHostEndian(value[1]._valueType[1],
                                                  value[1]._valueData)
       /\ pc' = "other.byteSwapHostToUSBEndian" =>
            IF otherValue[1]._isSwappedToUSBEndian
            THEN otherValue' = otherValue
            ELSE /\ otherValue'[1]._isSwappedToUSBEndian
                 /\ otherValue'[1]._valueData
                        = byteSwapHostToUSBEndian(otherValue[1]._valueType[1],
                                                  otherValue[1]._valueData)]_vars

\* Big-endian host: 1 and -5 scanned, swapped to the wire, and a second
\* byteSwapHostToUSBEndian has left the little-endian bytes alone.
C22_Witness ==
    /\ pc = "byteSwapHostToUSBEndian"
    /\ hostBigEndian
    /\ value[1]._isSwappedToUSBEndian
    /\ fieldTypeAtIndex(value[1]._valueType[1], 0) = "SInt32"
    /\ value[1]._valueData = <<1, 0, 0, 0, 251, 255, 255, 255>>

\* C23: copyValue(other) returns true exactly when other is a container and
\* the two schemas have the same atomic types in the same order; then the
\* buffer holds the other's bytes; otherwise the buffer is as it was.
C23_CopyValue ==
    [][pc' = "copyValue" =>
        /\ scanResult' =
               /\ otherValue # nullptr
               /\ SameTypes(value[1]._valueType[1], otherValue[1]._valueType[1])
        /\ value'[1]._valueData =
               IF scanResult' THEN otherValue[1]._valueData
               ELSE value[1]._valueData
        /\ value'[1]._valueType = value[1]._valueType]_vars

C23_Witness ==
    /\ pc = "copyValue"
    /\ scanResult
    /\ fieldNameAtIndex(value[1]._valueType[1], 0) = <<"p", "a", "n">>
    /\ fieldNameAtIndex(otherValue[1]._valueType[1], 0) = <<"a">>
    /\ value[1]._valueData = otherValue[1]._valueData
    /\ value[1]._valueData # Zeros(8)

-----------------------------------------------------------------------------
(* Properties of the schema-level swaps.                                   *)

\* C30: after byteSwapHostToUSBEndian or byteSwapUSBToHostEndian on a buffer,
\* _needsNoByteSwap is set exactly when the host is little-endian or every
\* field has width 1, and then the buffer is as it was; otherwise every
\* field of width 2, 4 or 8 holds its own earlier bytes reversed, every
\* field of width 1 its earlier byte, and the schema is as it was created.
C30_SwapFrame ==
    pc \in {"hostToUSB", "usbToHost"} =>
        LET t == uvcType[1]
            noSwap == \/ ~hostBigEndian
                      \/ \A f \in DOMAIN t._fields :
                             UVCTypeComponentByteSize(t._fields[f].fieldType) = 1
        IN  /\ t._needsNoByteSwap = noSwap
            /\ uvcType = createFromCString(DescriptionText(descr))
            /\ Len(buffer) = Len(buffer0)
            /\ noSwap => buffer = buffer0
            /\ \A f \in DOMAIN t._fields :
                   FieldBytes(t, buffer, f) =
                       IF noSwap THEN FieldBytes(t, buffer0, f)
                       ELSE Reverse(FieldBytes(t, buffer0, f))

C30_Witness ==
    /\ pc = "hostToUSB"
    /\ hostBigEndian
    /\ descr = SigByteWord
    /\ buffer0 = <<1, 127, 255>>
    /\ buffer = <<1, 255, 127>>

-----------------------------------------------------------------------------
(* The device controller and its USB interface.  An interface service is   *)
(* "noPlugIn" (no plug-in or no interface object can be had for it),       *)
(* "free", "exclusive" (held by another driver), "broken" (opening it      *)
(* fails for another reason) or "ours" (opened by this controller).        *)
(* _controllerInterface is the number of the service in the list, 0 for    *)
(* nullptr.                                                                *)

\* USBInterfaceOpen on a service: the IOReturn.
USBInterfaceOpen(service) ==
    CASE service = "free" -> "kIOReturnSuccess"
      [] service \in {"exclusive", "ours"} -> "kIOReturnExclusiveAccess"
      [] OTHER -> "kIOReturnError"

\* The services after USBInterfaceOpen on service number i.
Opened(svcs, i) ==
    IF svcs[i] = "free" THEN [svcs EXCEPT ![i] = "ours"] ELSE svcs

\* The services after USBInterfaceClose on service number i.
Closed(svcs, i) ==
    IF svcs[i] = "ours" THEN [svcs EXCEPT ![i] = "free"] ELSE svcs

\* The members as the constructor's initialiser list leaves them.
NewController ==
    [_controllerInterface |-> 0,
     _isInterfaceOpen |-> FALSE,
     _shouldNotCloseInterface |-> FALSE]

\* The while loop of findControllerInterfaceForServiceObject from service
\* number idx on: the controller and the services when it ends.
RECURSIVE FindInterface(_, _, _)
FindInterface(c, svcs, idx) ==
    IF idx > Len(svcs) THEN [controller |-> c, services |-> svcs]
    ELSE IF svcs[idx] = "noPlugIn" THEN FindInterface(c, svcs, idx + 1)
    ELSE IF USBInterfaceOpen(svcs[idx]) = "kIOReturnSuccess"
    THEN [controller |-> [_controllerInterface |-> idx,
                          _isInterfaceOpen |-> TRUE,
                          _shouldNotCloseInterface |-> TRUE],
          services |-> Opened(svcs, idx)]
    ELSE IF USBInterfaceOpen(svcs[idx]) = "kIOReturnExclusiveAccess"
    THEN [controller |-> [_controllerInterface |-> idx,
                          _isInterfaceOpen |-> TRUE,
                          _shouldNotCloseInterface |-> FALSE],
          services |-> svcs]
    ELSE FindInterface([c EXCEPT !._controllerInterface = 0], svcs, idx + 1)

\* UVCDeviceController::setIsInterfaceOpen: the controller and the services
\* afterwards.
setIsInterfaceOpen(c, svcs, isInterfaceOpen) ==
    IF isInterfaceOpen /\ ~c._isInterfaceOpen
    THEN IF c._controllerInterface # 0
         THEN [controller |->
                   [c EXCEPT !._isInterfaceOpen =
                        USBInterfaceOpen(svcs[c._controllerInterface])
                            = "kIOReturnSuccess"],
               services |-> Opened(svcs, c._controllerInterface)]
         ELSE [controller |-> c, services |-> svcs]
    ELSE IF ~isInterfaceOpen /\ c._isInterfaceOpen
    THEN IF c._controllerInterface # 0 /\ ~c._shouldNotCloseInterface
         THEN [controller |-> [c EXCEPT !._isInterfaceOpen = FALSE],
               services |-> Closed(svcs, c._controllerInterface)]
         ELSE [controller |-> c, services |-> svcs]
    ELSE [controller |-> c, services |-> svcs]

\* The part of sendControlRequest in front of the request: the interface is
\* opened when it is not open.
sendControlRequest(c, svcs) ==
    IF c._controllerInterface = 0 THEN [controller |-> c, services |-> svcs]
    ELSE IF ~c._isInterfaceOpen THEN setIsInterfaceOpen(c, svcs, TRUE)
    ELSE [controller |-> c, services |-> svcs]

-----------------------------------------------------------------------------
(* The controller as a state machine.                                      *)

ServiceKinds == {"noPlugIn", "free", "exclusive", "broken"}

ServiceLists == {<<>>} \cup UNION {[1..n -> ServiceKinds] : n \in 1..MaxFields}

\* UVCDeviceController::UVCDeviceController
NewUVCDeviceController ==
    /\ pc = "start"
    /\ \E svcs \in ServiceLists :
       \E r \in {FindInterface(NewController, svcs, 1)} :
        /\ controller' = <<r.controller>>
        /\ services' = r.services
    /\ pc' = "UVCDeviceController"
    /\ UNCHANGED <<hostBigEndian, controlVars, mainVars>>
    /\ UNCHANGED codecVars
    /\ UNCHANGED typeVars
    /\ UNCHANGED scanVars
    /\ UNCHANGED valueVars

\* controller->setIsInterfaceOpen(isInterfaceOpen)
SetIsInterfaceOpen ==
    /\ pc \notin {"start", "~UVCDeviceController"}
    /\ \E isInterfaceOpen \in BOOLEAN :
       \E r \in {setIsInterfaceOpen(controller[1], services, isInterfaceOpen)} :
        /\ controller' = <<r.controller>>
        /\ services' = r.services
        /\ pc' = IF isInterfaceOpen THEN "setIsInterfaceOpen(true)"
                 ELSE "setIsInterfaceOpen(false)"
    /\ UNCHANGED <<hostBigEndian, controlVars, mainVars>>
    /\ UNCHANGED codecVars
    /\ UNCHANGED typeVars
    /\ UNCHANGED scanVars
    /\ UNCHANGED valueVars

\* controller->sendControlRequest(request)
SendControlRequest ==
    /\ pc \notin {"start", "~UVCDeviceController"}
    /\ \E r \in {sendControlRequest(controller[1], services)} :
        /\ controller' = <<r.controller>>
        /\ services' = r.services
    /\ pc' = "sendControlRequest"
    /\ UNCHANGED <<hostBigEndian, controlVars, mainVars>>
    /\ UNCHANGED codecVars
    /\ UNCHANGED typeVars
    /\ UNCHANGED scanVars
    /\ UNCHANGED valueVars

\* Another driver takes an interface nobody holds, or lets go of its own.
OtherDriver ==
    /\ pc \notin {"start", "~UVCDeviceController"}
    /\ \E i \in DOMAIN services :
        /\ services[i] \in {"free", "exclusive"}
        /\ services' = [services EXCEPT ![i] = IF services[i] = "free"
                                                 THEN "exclusive" ELSE "free"]
    /\ pc' = "otherDriver"
    /\ UNCHANGED <<hostBigEndian, controller, controlVars, mainVars>>
    /\ UNCHANGED codecVars
    /\ UNCHANGED typeVars
    /\ UNCHANGED scanVars
    /\ UNCHANGED valueVars

\* UVCDeviceController::~UVCDeviceController
DeleteUVCDeviceController ==
    /\ pc \notin {"start", "~UVCDeviceController"}
    /\ services' = IF /\ controller[1]._controllerInterface # 0
                      /\ controller[1]._isInterfaceOpen
                      /\ ~controller[1]._shouldNotCloseInterface
                   THEN Closed(services, controller[1]._controllerInterface)
                   ELSE services
    /\ controller' = nullptr
    /\ pc' = "~UVCDeviceController"
    /\ UNCHANGED <<hostBigEndian, controlVars, mainVars>>
    /\ UNCHANGED codecVars
    /\ UNCHANGED typeVars
    /\ UNCHANGED scanVars
    /\ UNCHANGED valueVars

InterfaceNext ==
    \/ NewUVCDeviceController
    \/ SetIsInterfaceOpen
    \/ SendControlRequest
    \/ OtherDriver
    \/ DeleteUVCDeviceController

SpecInterface == TypeInit /\ [][InterfaceNext]_vars

-----------------------------------------------------------------------------
(* Properties of the controller.                                           *)

\* C26: when setIsInterfaceOpen(false) has returned on a controller that
\* holds an interface, _isInterfaceOpen is false; when setIsInterfaceOpen(true)
\* has returned and the interface is open by this controller's
\* USBInterfaceOpen, _isInterfaceOpen is true.
C26_ForcesState ==
    /\ (pc = "setIsInterfaceOpen(false)"
        /\ controller[1]._controllerInterface # 0)
           => ~controller[1]._isInterfaceOpen
    /\ (pc = "setIsInterfaceOpen(true)"
        /\ controller[1]._controllerInterface # 0
        /\ services[controller[1]._controllerInterface] = "ours")
           => controller[1]._isInterfaceOpen

-----------------------------------------------------------------------------
(* main: the command-line option loop.  In this part services holds one    *)
(* interface service for each attached UVC device, and targetDevice is the *)
(* number of the selected controller in uvcDevices.  getopt_long hands out *)
(* one option for each element of argv after the first.                    *)

\* The error codes main assigns to rc.
Errno == [ENOENT |-> 2, EIO |-> 5, ENODEV |-> 19, EINVAL |-> 22, ERANGE |-> 34]

\* Where control goes after an error was reported, always to the next option.
NextOnError_KeepGoing(exit) == "getopt"

\* "if (exitOnErrors) goto cleanupAndExit; break;"
NextOnError(exit) == IF exit THEN "cleanupAndExit" ELSE "getopt"

\* UVCDeviceController::getUVCControllers: a controller is made for every
\* attached device, and its constructor looks for the interface.
getUVCControllers(svcs) ==
    [uvcDevices |-> [k \in DOMAIN svcs |->
                        FindInterface(NewController, <<svcs[k]>>, 1).controller],
     services |-> [k \in DOMAIN svcs |->
                        FindInterface(NewController, <<svcs[k]>>, 1).services[1]]]

\* "if (uvcDevices.empty()) uvcDevices = getUVCControllers();"
Devices(ud, svcs) ==
    IF ud = <<>> THEN getUVCControllers(svcs)
    ELSE [uvcDevices |-> ud, services |-> svcs]

\* "targetDevice = uvcDevices[k]; targetDevice->setIsInterfaceOpen(true);"
Select(d, k) ==
    [uvcDevices |-> [d.uvcDevices EXCEPT ![k] =
         setIsInterfaceOpen(d.uvcDevices[k], <<d.services[k]>>, TRUE).controller],
     services |-> [d.services EXCEPT ![k] =
         setIsInterfaceOpen(d.uvcDevices[k], <<d.services[k]>>, TRUE).services[1]],
     targetDevice |-> <<k>>]

\* A lookup in uvcDevices that found nothing: "targetDevice = nullptr".
NotFound(d) ==
    [uvcDevices |-> d.uvcDevices, services |-> d.services,
     targetDevice |-> nullptr]

\* The start of the cases S, g, o, s and r: without a target device the
\* first device is taken.
AutoSelect(ud, svcs, target) ==
    IF target # nullptr
    THEN [uvcDevices |-> ud, services |-> svcs, targetDevice |-> target]
    ELSE IF Devices(ud, svcs).uvcDevices # <<>>
    THEN Select(Devices(ud, svcs), 1)
    ELSE NotFound(Devices(ud, svcs))

-----------------------------------------------------------------------------
(* main as a state machine.                                                *)

ServiceLists_main ==
    UNION {[1..n -> {"free", "exclusive"}] : n \in 0..2}

\* What no part of main touches.
MainFrame ==
    /\ UNCHANGED <<hostBigEndian, controlVars, controller, argc, attached>>
    /\ UNCHANGED <<warned, rescan>>
    /\ UNCHANGED codecVars
    /\ UNCHANGED typeVars
    /\ UNCHANGED valueVars

\* getopt_long returned an option.
Getopt ==
    /\ pc = "getopt"
    /\ optind < argc
    /\ optind' = optind + 1

\* An ERROR line, the assignment to rc and the exit pattern.
Report(code) ==
    /\ rc' = code
    /\ reported' = Append(reported, [code |-> code, at |-> optind])
    /\ pc' = NextOnError(exitOnErrors)

\* The case ends in break without an error.
Break ==
    /\ pc' = "getopt"
    /\ UNCHANGED <<rc, reported>>

\* The devices and the target device after the case.
Selected(d) ==
    /\ uvcDevices' = d.uvcDevices
    /\ services' = d.services
    /\ targetDevice' = d.targetDevice

\* main up to the loop.
Main ==
    /\ pc = "start"
    /\ \E n \in 1..(MaxFields + 2) : \E svcs \in ServiceLists_main :
        /\ argc' = n
        /\ services' = svcs
        /\ attached' = Len(svcs)
        /\ pc' = IF n = 1 THEN "return" ELSE "getopt"
    /\ optind' = 1
    /\ rc' = 0
    /\ exitOnErrors' = TRUE
    /\ scanFlags' = {"ShowWarnings"}
    /\ uvcDevices' = <<>>
    /\ targetDevice' = nullptr
    /\ reported' = <<>>
    /\ UNCHANGED <<hostBigEndian, controlVars, controller>>
    /\ UNCHANGED <<warned, rescan>>
    /\ UNCHANGED codecVars
    /\ UNCHANGED typeVars
    /\ UNCHANGED valueVars

\* case 'h', case 'v', case 'c'
OptUsage ==
    /\ Getopt
    /\ Break
    /\ UNCHANGED <<exitOnErrors, scanFlags, uvcDevices, services, targetDevice>>
    /\ MainFrame

\* case 'k'
OptKeepRunning ==
    /\ Getopt
    /\ exitOnErrors' = FALSE
    /\ Break
    /\ UNCHANGED <<scanFlags, uvcDevices, services, targetDevice>>
    /\ MainFrame

\* case 'D'
OptDebug ==
    /\ Getopt
    /\ scanFlags' = scanFlags \cup {"ShowInfo"}
    /\ Break
    /\ UNCHANGED <<exitOnErrors, uvcDevices, services, targetDevice>>
    /\ MainFrame

\* case 'd'
OptListDevices ==
    /\ Getopt
    /\ \E d \in {Devices(uvcDevices, services)} :
        /\ uvcDevices' = d.uvcDevices
        /\ services' = d.services
        /\ IF d.uvcDevices # <<>> THEN Break ELSE Report(Errno.ENODEV)
    /\ UNCHANGED <<exitOnErrors, scanFlags, targetDevice>>
    /\ MainFrame

\* case '0'
OptSelectNone ==
    /\ Getopt
    /\ targetDevice' = nullptr
    /\ Break
    /\ UNCHANGED <<exitOnErrors, scanFlags, uvcDevices, services>>
    /\ MainFrame

\* case 'S': all is whether optarg is "*", found whether controlWithName
\* returned a control.
OptShow ==
    /\ Getopt
    /\ \E d \in {AutoSelect(uvcDevices, services, targetDevice)} :
       \E all, found \in BOOLEAN :
        /\ Selected(d)
        /\ IF d.targetDevice # nullptr
           THEN IF all \/ found THEN Break ELSE Report(Errno.ENOENT)
           ELSE Report(Errno.ENODEV)
    /\ UNCHANGED <<exitOnErrors, scanFlags>>
    /\ MainFrame

\* case 'g', case 'o': found whether controlWithName returned a control,
\* read what readIntoCurrentValue returned, current whether currentValue
\* returned a container.
OptGet ==
    /\ Getopt
    /\ \E d \in {AutoSelect(uvcDevices, services, targetDevice)} :
       \E found, read, current \in BOOLEAN :
        /\ Selected(d)
        /\ IF d.targetDevice # nullptr
           THEN IF found
                THEN IF read
                     THEN IF current THEN Break ELSE Report(Errno.EIO)
                     ELSE Report(Errno.EIO)
                ELSE Report(Errno.ENOENT)
           ELSE Report(Errno.ENODEV)
    /\ UNCHANGED <<exitOnErrors, scanFlags>>
    /\ MainFrame

\* case 's': equalSign whether optarg holds '=', found whether
\* controlWithName returned a control, scanned and wrote what
\* setCurrentValueFromCString and writeFromCurrentValue returned.
OptSet ==
    /\ Getopt
    /\ \E d \in {AutoSelect(uvcDevices, services, targetDevice)} :
       \E equalSign, found, scanned, wrote \in BOOLEAN :
        /\ Selected(d)
        /\ IF d.targetDevice # nullptr
           THEN IF ~equalSign THEN Report(Errno.EINVAL)
                ELSE IF found
                THEN IF scanned
                     THEN IF wrote THEN Break ELSE Report(Errno.EIO)
                     ELSE Report(Errno.EINVAL)
                ELSE Report(Errno.ENOENT)
           ELSE Report(Errno.ENODEV)
    /\ UNCHANGED <<exitOnErrors, scanFlags>>
    /\ MainFrame

\* case 'r'
OptReset ==
    /\ Getopt
    /\ \E d \in {AutoSelect(uvcDevices, services, targetDevice)} :
        /\ Selected(d)
        /\ IF d.targetDevice # nullptr THEN Break ELSE Report(Errno.ENODEV)
    /\ UNCHANGED <<exitOnErrors, scanFlags>>
    /\ MainFrame

\* case 'V': colonPos whether optarg holds ':', k the first device with the
\* vendor and product asked for (0 when there is none).
OptSelectByVendorAndProductId ==
    /\ Getopt
    /\ \E d \in {Devices(uvcDevices, services)} :
       \E colonPos \in BOOLEAN : \E k \in 0..Len(d.uvcDevices) :
        IF ~colonPos
        THEN /\ uvcDevices' = d.uvcDevices
             /\ services' = d.services
             /\ UNCHANGED targetDevice
             /\ Report(Errno.EINVAL)
        ELSE IF k # 0
        THEN Selected(Select(d, k)) /\ Break
        ELSE Selected(NotFound(d)) /\ Report(Errno.ENODEV)
    /\ UNCHANGED <<exitOnErrors, scanFlags>>
    /\ MainFrame

\* case 'L', case 'N': k the first device with the location or the name
\* asked for (0 when there is none).
OptSelectByLocationIdOrName ==
    /\ Getopt
    /\ \E d \in {Devices(uvcDevices, services)} :
       \E k \in 0..Len(d.uvcDevices) :
        IF k # 0
        THEN Selected(Select(d, k)) /\ Break
        ELSE Selected(NotFound(d)) /\ Report(Errno.ENODEV)
    /\ UNCHANGED <<exitOnErrors, scanFlags>>
    /\ MainFrame

\* case 'I'
OptSelectByIndex ==
    /\ Getopt
    /\ \E d \in {Devices(uvcDevices, services)} :
       \E deviceIndex \in 0..2 :
        IF deviceIndex < Len(d.uvcDevices)
        THEN Selected(Select(d, deviceIndex + 1)) /\ Break
        ELSE /\ uvcDevices' = d.uvcDevices
             /\ services' = d.services
             /\ UNCHANGED targetDevice
             /\ Report(Errno.ERANGE)
    /\ UNCHANGED <<exitOnErrors, scanFlags>>
    /\ MainFrame

\* default
OptUnrecognized ==
    /\ Getopt
    /\ Report(Errno.EINVAL)
    /\ UNCHANGED <<exitOnErrors, scanFlags, uvcDevices, services, targetDevice>>
    /\ MainFrame

\* getopt_long returned -1.
GetoptEnd ==
    /\ pc = "getopt"
    /\ optind = argc
    /\ pc' = "cleanupAndExit"
    /\ UNCHANGED <<optind, rc, reported, exitOnErrors, scanFlags, uvcDevices,
                   services, targetDevice>>
    /\ MainFrame

\* cleanupAndExit: return rc;
Return ==
    /\ pc = "cleanupAndExit"
    /\ pc' = "return"
    /\ UNCHANGED <<optind, rc, reported, exitOnErrors, scanFlags, uvcDevices,
                   services, targetDevice>>
    /\ MainFrame

MainNext ==
    \/ Main
    \/ OptUsage
    \/ OptKeepRunning
    \/ OptDebug
    \/ OptListDevices
    \/ OptSelectNone
    \/ OptShow
    \/ OptGet
    \/ OptSet
    \/ OptReset
    \/ OptSelectByVendorAndProductId
    \/ OptSelectByLocationIdOrName
    \/ OptSelectByIndex
    \/ OptUnrecognized
    \/ GetoptEnd
    \/ Return

SpecMain == TypeInit /\ [][MainNext]_vars

-----------------------------------------------------------------------------
(* Properties of main.                                                     *)

\* C25: while -k has not been processed, an error that was reported is the
\* only one, no option after it was processed, and rc is its code on the way
\* out; when main returns after -k was processed, every option was processed
\* and rc is non-zero exactly when an error was reported.
C25_ExitOnErrors ==
    /\ (exitOnErrors /\ reported # <<>>)
           => /\ pc \in {"cleanupAndExit", "return"}
              /\ Len(reported) = 1
              /\ optind = reported[1].at + 1
              /\ rc = reported[1].code
              /\ rc # 0
    /\ (pc = "return" /\ ~exitOnErrors)
           => /\ optind = argc
              /\ (rc # 0) <=> (reported # <<>>)

\* -k came first, two later options failed, and main returned.
C25_Witness ==
    /\ pc = "return"
    /\ ~exitOnErrors
    /\ optind = argc
    /\ Len(reported) = 2
    /\ reported[1].code # reported[2].code
    /\ rc = reported[2].code

-----------------------------------------------------------------------------
(* A control and the controller's transfers.  The camera keeps the value   *)
(* of a control, its minimum, maximum, resolution and default in wire      *)
(* order; ControlRequest succeeds when this controller holds the interface *)
(* and the camera answers the request.                                     *)

\* "minimum ? minimum->valuePtr() : nullptr"
valuePtr(p) == IF p = nullptr THEN <<>> ELSE <<p[1]._valueData>>

\* UVCValue::scanCString(cString, flags, minimum, maximum, stepSize,
\* defaultValue): what UVCType::scanCString returned.
valueScanCStringInRange(v, s, flags, minimum, maximum, stepSize, defaultValue) ==
    IF v._valueType = nullptr
    THEN [ok |-> FALSE, buf |-> v._valueData, warned |-> FALSE]
    ELSE scanCString(v._valueType[1], s, v._valueData, flags,
                     [minimum      |-> valuePtr(minimum),
                      maximum      |-> valuePtr(maximum),
                      stepSize     |-> valuePtr(stepSize),
                      defaultValue |-> valuePtr(defaultValue)])

\* sendControlRequest returned true.
Transferred(c, svcs, dev, bRequest) ==
    /\ c._controllerInterface # 0
    /\ sendControlRequest(c, svcs).controller._isInterfaceOpen
    /\ sendControlRequest(c, svcs).services[c._controllerInterface] = "ours"
    /\ bRequest \in dev.answers

\* getData into the buffer of a container: the bytes of the camera arrive as
\* they are when the transfer succeeds.
getData(p, c, svcs, dev, bRequest) ==
    IF Transferred(c, svcs, dev, bRequest)
    THEN <<[p[1] EXCEPT !._valueData = dev[bRequest]]>>
    ELSE p

\* "(*lowValue)->byteSwapUSBToHostEndian()"
ToHostEndian(p) == <<valueByteSwapUSBToHostEndian(p[1])>>

\* UVCDeviceController::capabilities
capabilities(ctl, c, svcs, dev) ==
    IF Transferred(c, svcs, dev, "GET_INFO")
    THEN [ctl EXCEPT !._capabilities = dev.GET_INFO]
    ELSE ctl

\* UVCDeviceController::getLowValue
getLowValue(ctl, c, svcs, dev) ==
    [ctl EXCEPT
       !._minimum =
           IF ctl._minimum = nullptr \/ ctl._maximum = nullptr THEN @
           ELSE IF /\ Transferred(c, svcs, dev, "GET_MIN")
                   /\ Transferred(c, svcs, dev, "GET_MAX")
           THEN ToHostEndian(getData(@, c, svcs, dev, "GET_MIN"))
           ELSE nullptr,
       !._maximum =
           IF ctl._minimum = nullptr \/ ctl._maximum = nullptr THEN @
           ELSE IF /\ Transferred(c, svcs, dev, "GET_MIN")
                   /\ Transferred(c, svcs, dev, "GET_MAX")
           THEN ToHostEndian(getData(@, c, svcs, dev, "GET_MAX"))
           ELSE nullptr,
       !._stepSize =
           IF @ = nullptr THEN @
           ELSE IF Transferred(c, svcs, dev, "GET_RES")
           THEN ToHostEndian(getData(@, c, svcs, dev, "GET_RES"))
           ELSE nullptr,
       !._defaultValue =
           IF @ = nullptr THEN @
           ELSE IF Transferred(c, svcs, dev, "GET_DEF")
           THEN ToHostEndian(getData(@, c, svcs, dev, "GET_DEF"))
           ELSE nullptr,
       !._capabilities =
           @ \cup (IF /\ ctl._minimum # nullptr /\ ctl._maximum # nullptr
                      /\ Transferred(c, svcs, dev, "GET_MIN")
                      /\ Transferred(c, svcs, dev, "GET_MAX")
                   THEN {"kUVCControlHasRange"} ELSE {})
             \cup (IF /\ ctl._stepSize # nullptr
                      /\ Transferred(c, svcs, dev, "GET_RES")
                   THEN {"kUVCControlHasStepSize"} ELSE {})
             \cup (IF /\ ctl._defaultValue # nullptr
                      /\ Transferred(c, svcs, dev, "GET_DEF")
                   THEN {"kUVCControlHasDefaultValue"} ELSE {})]

\* UVCControl::UVCControl
UVCControl(typeSignature, c, svcs, dev) ==
    getLowValue(
        capabilities(
            [_currentValue |-> create(createFromCString(typeSignature)),
             _minimum      |-> create(createFromCString(typeSignature)),
             _maximum      |-> create(createFromCString(typeSignature)),
             _stepSize     |-> create(createFromCString(typeSignature)),
             _defaultValue |-> create(createFromCString(typeSignature)),
             _capabilities |-> {}],
            c, svcs, dev),
        c, svcs, dev)

\* UVCDeviceController::getValue into _currentValue
getValue(ctl, c, svcs, dev) ==
    [ctl EXCEPT !._currentValue = getData(@, c, svcs, dev, "GET_CUR")]

\* UVCDeviceController::setValue: the request as the transport gets it, when
\* it gets one.
setValue(ctl, c, svcs, last) ==
    IF /\ c._controllerInterface # 0
       /\ sendControlRequest(c, svcs).controller._isInterfaceOpen
    THEN <<[bRequest |-> "SET_CUR",
            pData |-> ctl._currentValue[1]._valueData]>>
    ELSE last

\* The camera after setValue.
Stored(ctl, c, svcs, dev) ==
    IF Transferred(c, svcs, dev, "SET_CUR")
    THEN [dev EXCEPT !.GET_CUR = ctl._currentValue[1]._valueData]
    ELSE dev

-----------------------------------------------------------------------------
(* The control as a state machine.                                         *)

\* What the camera holds for a control of the signature, in wire order.
Camera(sig) ==
    IF sig = SigPanTiltAbs
    THEN [GET_CUR |-> <<10, 0, 0, 0, 251, 255, 255, 255>>,
          GET_MIN |-> <<156, 255, 255, 255, 156, 255, 255, 255>>,
          GET_MAX |-> <<100, 0, 0, 0, 100, 0, 0, 0>>,
          GET_RES |-> <<1, 0, 0, 0, 1, 0, 0, 0>>,
          GET_DEF |-> <<3, 0, 0, 0, 0, 0, 0, 0>>]
    ELSE [GET_CUR |-> <<1, 0, 5>>,
          GET_MIN |-> <<255, 0, 0>>,
          GET_MAX |-> <<1, 1, 7>>,
          GET_RES |-> <<1, 1, 1>>,
          GET_DEF |-> <<0, 0, 1>>]

Requests ==
    {"GET_INFO", "GET_CUR", "GET_MIN", "GET_MAX", "GET_RES", "GET_DEF",
     "SET_CUR"}

Answers ==
    {Requests, Requests \ {"GET_RES"}, Requests \ {"GET_MAX"},
     Requests \ {"SET_CUR"}, {"GET_INFO", "GET_CUR", "SET_CUR"}}

\* Texts for setCurrentValueFromCString, each with the wire bytes of the
\* values it names.
ControlTexts(sig) ==
    IF sig = SigPanTiltAbs
    THEN {[text |-> <<"{", "1", "0", ",", "-", "5", "}">>,
           wire |-> <<10, 0, 0, 0, 251, 255, 255, 255>>],
          [text |-> <<"{", "-", "5", ",", "1", "0", "}">>,
           wire |-> <<251, 255, 255, 255, 10, 0, 0, 0>>],
          [text |-> <<"{", "x", "}">>, wire |-> <<>>]}
    ELSE {[text |-> <<"{", "1", ",", "0", ",", "5", "}">>,
           wire |-> <<1, 0, 5>>],
          [text |-> <<"{", "x", "}">>, wire |-> <<>>]}

\* What no operation of the control touches.
ControlFrame ==
    /\ UNCHANGED <<hostBigEndian, mainVars>>
    /\ UNCHANGED <<scanFlags, rescan>>
    /\ UNCHANGED <<buffer, buffer0, limits>>
    /\ UNCHANGED typeVars
    /\ UNCHANGED valueVars

\* The interface after the first request of the operation.
Requested ==
    \E r \in {sendControlRequest(controller[1], services)} :
        /\ controller' = <<r.controller>>
        /\ services' = r.services

\* A controller for the camera, then controlWithName making the control.
NewUVCControl ==
    /\ pc = "start"
    /\ \E sig \in {SigPanTiltAbs, SigZoomRel} :
       \E svcs \in {<<"free">>, <<"exclusive">>, <<"broken">>} :
       \E info \in {{"kUVCControlSupportsGet"},
                     {"kUVCControlSupportsGet", "kUVCControlSupportsSet"}} :
       \E answers \in Answers :
       \E r \in {FindInterface(NewController, svcs, 1)} :
       \E dev \in {Camera(sig) @@ [GET_INFO |-> info, answers |-> answers]} :
        /\ controller' = <<r.controller>>
        /\ services' = r.services
        /\ device' = dev
        /\ descr' = sig
        /\ control' = <<UVCControl(DescriptionText(sig), r.controller,
                                   r.services, dev)>>
    /\ transport' = <<>>
    /\ pc' = "UVCControl"
    /\ UNCHANGED <<hostBigEndian, mainVars>>
    /\ UNCHANGED <<names, types, uvcType, otherType, equalResult>>
    /\ UNCHANGED codecVars
    /\ UNCHANGED scanVars
    /\ UNCHANGED valueVars

\* control->setCurrentValueFromCString(cString, flags)
SetCurrentValueFromCString ==
    /\ pc \notin {"start"}
    /\ \E w \in ControlTexts(descr) :
       \E r \in {valueScanCStringInRange(control[1]._currentValue[1], w.text,
                                         {"ShowWarnings"},
                                         control[1]._minimum,
                                         control[1]._maximum,
                                         control[1]._stepSize,
                                         control[1]._defaultValue)} :
        /\ control' = <<[control[1] EXCEPT
                            !._currentValue[1]._valueData = r.buf]>>
        /\ cString' = w.text
        /\ written' = [form |-> "wire", values |-> <<w.wire>>]
        /\ scanResult' = r.ok
        /\ warned' = r.warned
    /\ formatted' = <<>>
    /\ pc' = "setCurrentValueFromCString"
    /\ UNCHANGED <<controller, services, device, transport>>
    /\ ControlFrame

\* control->writeFromCurrentValue()
WriteFromCurrentValue ==
    /\ pc \notin {"start"}
    /\ control[1]._currentValue # nullptr
    /\ transport' = setValue(control[1], controller[1], services, transport)
    /\ device' = Stored(control[1], controller[1], services, device)
    /\ Requested
    /\ formatted' = <<>>
    /\ pc' = "writeFromCurrentValue"
    /\ UNCHANGED <<control, cString, written, scanResult, warned>>
    /\ ControlFrame

\* control->resetToDefaultValue()
ResetToDefaultValue ==
    /\ pc \notin {"start"}
    /\ control[1]._defaultValue # nullptr
    /\ control[1]._currentValue # nullptr
    /\ \E ctl \in {[control[1] EXCEPT !._currentValue =
                       <<copyValue(@[1], control[1]._defaultValue).value>>]} :
        /\ control' = <<ctl>>
        /\ transport' = setValue(ctl, controller[1], services, transport)
        /\ device' = Stored(ctl, controller[1], services, device)
    /\ Requested
    /\ cString' = <<>>
    /\ written' = NotWritten
    /\ scanResult' = FALSE
    /\ formatted' = <<>>
    /\ pc' = "resetToDefaultValue"
    /\ UNCHANGED warned
    /\ ControlFrame

\* control->readIntoCurrentValue()
ReadIntoCurrentValue ==
    /\ pc \notin {"start"}
    /\ control[1]._currentValue # nullptr
    /\ control' = <<getValue(control[1], controller[1], services, device)>>
    /\ Requested
    /\ cString' = <<>>
    /\ written' = NotWritten
    /\ scanResult' = FALSE
    /\ formatted' = <<>>
    /\ pc' = "readIntoCurrentValue"
    /\ UNCHANGED <<device, transport, warned>>
    /\ ControlFrame

\* control->currentValue() and, when it returned a container, stringValue()
\* of that: what main prints for -g and -o.
CurrentValue ==
    /\ pc \notin {"start"}
    /\ control[1]._currentValue # nullptr
    /\ \E ctl \in {getValue(control[1], controller[1], services, device)} :
        /\ control' = <<ctl>>
        /\ formatted' =
               IF Transferred(controller[1], services, device, "GET_CUR")
               THEN stringValue(ctl._currentValue[1])
               ELSE <<>>
    /\ Requested
    /\ cString' = <<>>
    /\ written' = NotWritten
    /\ scanResult' = FALSE
    /\ pc' = "currentValue"
    /\ UNCHANGED <<device, transport, warned>>
    /\ ControlFrame

\* The text of a container in summaryString, <<>> when the line is left out.
SummaryLine(ctl, capability, p) ==
    IF capability \in ctl._capabilities /\ p # nullptr
    THEN stringValue(p[1]) ELSE <<>>

\* control->summaryString(): the minimum, maximum, step-size, default-value
\* and current-value lines.
SummaryString ==
    /\ pc \notin {"start"}
    /\ \E ctl \in {getValue(control[1], controller[1], services, device)} :
        /\ control' = <<ctl>>
        /\ formatted' =
               <<IF ctl._maximum # nullptr
                 THEN SummaryLine(ctl, "kUVCControlHasRange", ctl._minimum)
                 ELSE <<>>,
                 IF ctl._minimum # nullptr
                 THEN SummaryLine(ctl, "kUVCControlHasRange", ctl._maximum)
                 ELSE <<>>,
                 SummaryLine(ctl, "kUVCControlHasStepSize", ctl._stepSize),
                 SummaryLine(ctl, "kUVCControlHasDefaultValue",
                             ctl._defaultValue),
                 stringValue(ctl._currentValue[1])>>
    /\ Requested
    /\ cString' = <<>>
    /\ written' = NotWritten
    /\ scanResult' = FALSE
    /\ pc' = "summaryString"
    /\ UNCHANGED <<device, transport, warned>>
    /\ ControlFrame

ControlNext ==
    \/ NewUVCControl
    \/ SetCurrentValueFromCString
    \/ WriteFromCurrentValue
    \/ ResetToDefaultValue
    \/ ReadIntoCurrentValue
    \/ CurrentValue
    \/ SummaryString

SpecControl == TypeInit /\ [][ControlNext]_vars

-----------------------------------------------------------------------------
(* Properties of the control layer.                                        *)

\* The schema of the control.
ControlType == control[1]._currentValue[1]._valueType[1]

\* A container of the control is absent or holds the camera's bytes for the
\* request converted to host order.
InHostOrder(p, bRequest) ==
    p # nullptr
        => p[1]._valueData = byteSwapUSBToHostEndian(ControlType, device[bRequest])

\* C24: on a host of either byte order, the buffer writeFromCurrentValue
\* hands to the transport after a successful setCurrentValueFromCString holds
\* the scanned values in wire order, and the buffer of resetToDefaultValue
\* holds the camera's default as the camera gave it; the minimum, maximum,
\* step size and default kept as scan limits are the camera's bytes converted
\* to host order; and the text of the current value read for -g is the text
\* of the camera's bytes converted to host order.
C24_WireOrder ==
    /\ (pc = "writeFromCurrentValue" /\ written.form = "wire" /\ scanResult
        /\ transport # <<>>)
           => transport[1].pData = written.values[1]
    /\ (pc = "resetToDefaultValue" /\ transport # <<>>)
           => transport[1].pData = device.GET_DEF
    /\ control # nullptr
           => /\ InHostOrder(control[1]._minimum, "GET_MIN")
              /\ InHostOrder(control[1]._maximum, "GET_MAX")
              /\ InHostOrder(control[1]._stepSize, "GET_RES")
              /\ InHostOrder(control[1]._defaultValue, "GET_DEF")
    /\ (pc = "currentValue" /\ formatted # <<>>)
           => formatted = stringFromBuffer(ControlType,
                              byteSwapUSBToHostEndian(ControlType, device.GET_CUR))

=============================================================================
